---- MODULE Spec2Model ----
(***************************************************************************)
(* Verification model of the command resolution engine of ordermypdf:      *)
(*   - ResolutionPipeline (app/command_intelligence.py): staged parse      *)
(*   - clarify_intent and the orderer (app/clarification_layer.py)         *)
(*   - the session store and the request handlers (app/main.py)            *)
(* Prompts are sequences of words; every regular expression of the source  *)
(* is translated into a predicate over the words of the prompt.            *)
(***************************************************************************)
EXTENDS Integers, Sequences, FiniteSets, TLC

(***************************************************************************)
(* Generic helpers on word sequences                                       *)
(***************************************************************************)
None == "<none>"

HasTok(p, t) == \E i \in 1..Len(p) : p[i] = t

HasAny(p, S) == \E i \in 1..Len(p) : p[i] \in S

Adj(p, A, B) == \E i \in 1..(Len(p) - 1) : p[i] \in A /\ p[i + 1] \in B

Adj3(p, A, B, C) ==
    \E i \in 1..(Len(p) - 2) : p[i] \in A /\ p[i + 1] \in B /\ p[i + 2] \in C

SeqsUpTo(S, n) == UNION {[1..k -> S] : k \in 0..n}

\* LET x == value IN Body(x), with the value written once
With(value, Body(_)) == Body(value)

(***************************************************************************)
(* PART 1.  ResolutionPipeline (app/command_intelligence.py)               *)
(***************************************************************************)
MaxPromptLen == 3

\* words the staged parser is exercised with
RVocab == {"split", "delete", "merge", "compress", "convert", "rotate",
           "pages", "1-3", "to", "docx", "90", "fix"}

RPrompts == SeqsUpTo(RVocab, MaxPromptLen)

\* words that start with a digit ( \d ) and words that start with "1"
DigitWords == {"1-3", "90"}
OneWords == {"1-3"}

\* CommandPatterns.COMPILED_PATTERNS: one predicate per family
FamilyMatches(p, fam) ==
    CASE fam = "merge"    -> HasTok(p, "merge")
      [] fam = "split"    -> HasTok(p, "split") \/ Adj(p, {"pages"}, OneWords)
      [] fam = "delete"   -> HasTok(p, "delete")
      [] fam = "compress" -> HasTok(p, "compress")
      [] fam = "ocr"      -> FALSE
      [] fam = "convert"  -> HasTok(p, "convert") \/ Adj(p, {"to"}, {"docx"})
      [] fam = "rotate"   -> HasTok(p, "rotate")
      [] fam = "clean"    -> FALSE

\* insertion order of the COMPILED_PATTERNS dictionary
FamilyOrder == <<"merge", "split", "delete", "compress", "ocr", "convert", "rotate", "clean">>

FamilySet == {FamilyOrder[i] : i \in 1..Len(FamilyOrder)}

\* CommandIntelligence.detect_intent: first family, in dictionary order, with a hit
detect_intent(p) ==
    IF \E i \in 1..Len(FamilyOrder) : FamilyMatches(p, FamilyOrder[i])
    THEN LET i == CHOOSE j \in 1..Len(FamilyOrder) :
                    /\ FamilyMatches(p, FamilyOrder[j])
                    /\ \A k \in 1..(j - 1) : ~FamilyMatches(p, FamilyOrder[k])
         IN FamilyOrder[i]
    ELSE None

\* CommandIntelligence.find_all_intents
find_all_intents(p) == {FamilyOrder[i] : i \in {j \in 1..Len(FamilyOrder) : FamilyMatches(p, FamilyOrder[j])}}

\* CommandIntelligence.extract_parameters: the names of the parameters found
extract_parameters(p, intent) ==
    CASE intent \in {"split", "delete"} ->
            IF Adj(p, {"pages"}, DigitWords) THEN {"pages"} ELSE {}
      [] intent = "convert" -> IF HasTok(p, "docx") THEN {"target_format"} ELSE {}
      [] intent = "rotate"  -> IF HasTok(p, "90") THEN {"degrees"} ELSE {}
      [] OTHER -> {}

\* CommandIntelligence.detect_ambiguity
clarity_score(p) ==
      (IF Adj(p, {"pages"}, DigitWords) THEN 2 ELSE 0)
    + (IF Adj(p, {"to"}, {"docx"}) THEN 2 ELSE 0)
    - (IF Cardinality(find_all_intents(p)) > 1 THEN 1 ELSE 0)
    - (IF HasTok(p, "fix") THEN 2 ELSE 0)

detect_ambiguity(p) ==
    IF clarity_score(p) >= 2 THEN "low"
    ELSE IF clarity_score(p) >= 0 THEN "medium"
    ELSE "high"

\* required_params table of calculate_confidence
required_params(intent) ==
    CASE intent = "merge"   -> {"files"}
      [] intent = "split"   -> {"pages"}
      [] intent = "delete"  -> {"pages"}
      [] intent = "convert" -> {"target_format"}
      [] intent = "rotate"  -> {"degrees"}
      [] OTHER -> {}

Min(a, b) == IF a <= b THEN a ELSE b

\* CommandIntelligence.calculate_confidence, in hundredths
calculate_confidence(p, intent, params) ==
    LET clarity == IF detect_intent(p) # None THEN 30 ELSE 0
        req == required_params(intent)
        completeness ==
            IF req = {} THEN 40
            ELSE (40 * Cardinality(req \cap params)) \div Cardinality(req)
        amb == detect_ambiguity(p)
        low == IF amb = "low" THEN 30 ELSE IF amb = "medium" THEN 15 ELSE 0
    IN Min(clarity + completeness + low, 100)

\* the three factors of calculate_confidence, in hundredths: intent clarity
\* (177-178), parameter completeness (181-198) and low ambiguity (201-205)
intent_clarity(p) == IF detect_intent(p) # None THEN 30 ELSE 0

parameter_completeness(intent, params) ==
    IF intent \notin FamilySet THEN 0
    ELSE IF required_params(intent) = {} THEN 40
    ELSE (40 * Cardinality(required_params(intent) \cap params))
            \div Cardinality(required_params(intent))

ambiguity_term(p) ==
    CASE detect_ambiguity(p) = "low" -> 30
      [] detect_ambiguity(p) = "medium" -> 15
      [] OTHER -> 0

NoParsing == [intent |-> None, params |-> {}, confidence |-> 0, ambiguity |-> None]

\* CommandIntelligence.parse_command
parse_command(p) ==
    LET intent == detect_intent(p) IN
    IF intent = None THEN NoParsing
    ELSE LET params == extract_parameters(p, intent) IN
         [intent |-> intent, params |-> params,
          confidence |-> calculate_confidence(p, intent, params),
          ambiguity |-> detect_ambiguity(p)]

STAGE1_CONFIDENCE_THRESHOLD == 70

\* ResolutionPipeline.stage1_direct_parse.  Above the threshold the parse is
\* returned.  Below it the log line is evaluated first:
\*   f"... {parsing.confidence:.2f if parsing else 0:.2f}"
\* whose format specification is the text after the first colon, so the
\* evaluation raises AttributeError when parsing is None and ValueError
\* (invalid format specifier) otherwise; "return None" is never reached.
\* stage1_direct_parse with the comparison "above the threshold" in place of
\* "at least the threshold"
stage1_direct_parse_above_threshold(p) ==
    LET parsing == parse_command(p) IN
    IF parsing # NoParsing /\ parsing.confidence > STAGE1_CONFIDENCE_THRESHOLD
    THEN [kind |-> "parsing", parsing |-> parsing]
    ELSE [kind |-> "raised", parsing |-> parsing]

stage1_direct_parse(p) ==
    LET parsing == parse_command(p) IN
    IF parsing # NoParsing /\ parsing.confidence >= STAGE1_CONFIDENCE_THRESHOLD
    THEN [kind |-> "parsing", parsing |-> parsing]
    ELSE IF parsing = NoParsing
         THEN [kind |-> "raised", parsing |-> NoParsing]
         ELSE [kind |-> "raised", parsing |-> parsing]

\* what the rewrite collaborator does when rephrase_with_fallback asks it: it
\* rewrites the prompt, every provider raises, every provider runs into its
\* timeout, or the answer is empty
RephraseAnswers == {"rewrites", "fails", "times_out", "nothing"}

\* the text a rewrite comes back with
REWRITTEN_TEXT == <<"compress">>

\* rephrase_with_fallback as stage2_llm_rephrase sees it: a provider that
\* raises or times out is skipped inside its own "except Exception", and the
\* result is the first text that is not blank, None when there is none
rephrase_with_fallback(p, answer) ==
    IF p = <<>> THEN None
    ELSE IF answer = "rewrites" THEN REWRITTEN_TEXT
    ELSE None

\* ResolutionPipeline.stage2_llm_rephrase (enable_llm_rephrase is True by
\* default): the parse of the rewritten text, NoParsing for None
stage2_llm_rephrase(p, answer) ==
    LET out == rephrase_with_fallback(p, answer) IN
    IF out = None THEN NoParsing ELSE parse_command(out)

\* ResolutionPipeline.stage3_ask_clarification
stage3_ask_clarification(parsing) ==
    IF parsing = NoParsing
    THEN [question |-> "I'm not sure what you'd like to do. Could you clarify?",
          options |-> <<"compress", "merge", "split", "convert", "OCR", "something else">>]
    ELSE IF parsing.intent = "split"
    THEN [question |-> "Which pages would you like to keep? (e.g., 1-5, or 1,3,5)",
          options |-> <<"pages 1-5", "pages 1,3,5", "first 5 pages">>]
    ELSE IF parsing.intent = "convert"
    THEN [question |-> "What format would you like to convert to?",
          options |-> <<"PDF", "DOCX", "JPG", "PNG">>]
    ELSE IF parsing.intent = "compress"
    THEN [question |-> "How much compression?",
          options |-> <<"screen (smallest)", "ebook (default)", "to 1MB", "to 2MB">>]
    ELSE [question |-> "About <intent> - any additional details?",
          options |-> <<"yes, here they are", "no, proceed">>]

\* ResolutionPipeline.resolve.  stage1_direct_parse has two ways out, the parse
\* and the exception; there is no try around the call, so the exception is the
\* outcome of resolve.  Stage 2 and Stage 3 follow a Stage 1 that returns None.
resolve(p, answer) ==
    LET first == stage1_direct_parse(p) IN
    IF first.kind \in {"parsing", "raised"} THEN first
    ELSE LET second == stage2_llm_rephrase(p, answer) IN
         IF second # NoParsing /\ second.confidence >= STAGE1_CONFIDENCE_THRESHOLD
         THEN [kind |-> "parsing", parsing |-> second]
         ELSE [kind |-> "clarification", parsing |-> NoParsing,
               clarification |-> stage3_ask_clarification(second)]

(***************************************************************************)
(* PART 2.  clarify_intent and the orderer (app/clarification_layer.py)    *)
(*                                                                         *)
(* The upload is a list of PDF names ("files"; file_names is the upload of *)
(* one PDF).  A prompt is the sequence of its words; the word "" stands    *)
(* for an extra blank between two words.  Patterns of clarify_intent that  *)
(* no word of Vocabulary can match are left out.                           *)
(***************************************************************************)
file_names == <<"doc.pdf">>

Vocabulary == {"add", "watermark", "draft", "DRAFT", "CONFIDENTIAL", "convert",
               "to", "docx", "png", "and", "then", "compress", "by", "50%",
               "hello", "again", "sign", "export", "pages", "as", "images",
               "merge"}

\* re.search(r"\b(merge|combine|join)\b", ...)
MergeWords == {"merge", "combine", "join"}

\* str.lower() on the words of the vocabulary
Lower(w) ==
    CASE w = "DRAFT" -> "draft"
      [] w = "CONFIDENTIAL" -> "confidential"
      [] OTHER -> w

LowerSeq(p) == [i \in 1..Len(p) |-> Lower(p[i])]

\* str.split(): the words of a text, blanks dropped
Words(p) == SelectSeq(p, LAMBDA w : w # "")

\* app.utils.normalize_whitespace: " ".join(s.split())
normalize_whitespace(p) == Words(p)

\* _normalize_prompt_for_heuristics: fuzzy_match_keyword leaves a correctly
\* spelled word as it is
_normalize_prompt_for_heuristics(p) == p

\* _fix_common_connector_typos: none of the misspellings is in the vocabulary
_fix_common_connector_typos(p) == p

\* " and then ".join(parts)
RECURSIVE JoinAndThen(_)
JoinAndThen(parts) ==
    IF parts = <<>> THEN <<>>
    ELSE IF Len(parts) = 1 THEN parts[1]
    ELSE parts[1] \o <<"and", "then">> \o JoinAndThen(Tail(parts))

\* index of the first word of p (lower-cased) that belongs to S, 0 if none
FirstIn(p, S) ==
    IF \E i \in 1..Len(p) : Lower(p[i]) \in S
    THEN CHOOSE i \in 1..Len(p) :
            /\ Lower(p[i]) \in S
            /\ \A j \in 1..(i - 1) : Lower(p[j]) \notin S
    ELSE 0

\* re.split(r"\b(sep)\b", s) with the empty parts dropped
RECURSIVE SplitOn(_, _)
SplitOn(p, seps) ==
    LET i == FirstIn(p, seps) IN
    IF i = 0 THEN (IF p = <<>> THEN <<>> ELSE <<p>>)
    ELSE (IF i = 1 THEN <<>> ELSE <<SubSeq(p, 1, i - 1)>>)
         \o SplitOn(SubSeq(p, i + 1, Len(p)), seps)

UNSUPPORTED_REPLY == "Not supported yet or sooner"

Q_WATERMARK == "What watermark text should I add?"

Q_OUTPUTS == "Your request asks for multiple different final outputs. Pick one (click an option below)."

Q_SORRY == "Sorry, I couldn't understand your request. Here are some examples: ..."

Q_SORRY_MULTI == "Sorry, I couldn't fully understand the multi-step request. ..."

\* the question of a clarification that the LLM asks for
Q_LLM == "What would you like to do with this file?"

\* a question of the LLM about the angle of a rotation
Q_ROTATE_DEGREES == "How many degrees should I rotate the pages?"

\* the same, with the options the LLM offers next to it
LLM_OPTIONS == << <<"convert", "to", "docx", "and", "compress", "by", "50%">>,
                  <<"compress">> >>

\* what one call of ai_parser.parse_intent can come back with
LlmAnswers == {"fail", "intent", "clarify", "clarify_options", "unsupported"}

\* ParsedIntent: one step of a plan
ParsedIntent(op, arg) == [op |-> op, arg |-> arg]

NoIntent == <<>>

NoOptions == <<>>

\* ClarificationResult(intent, clarification, options); a single ParsedIntent
\* is a plan of one step, a list of them a longer plan
ClarificationResult(intent, clarification, options) ==
    [intent |-> intent, clarification |-> clarification, options |-> options]

\* _is_explicitly_unsupported_request without the scan for signing words
_is_explicitly_unsupported_request_no_signing(p) ==
    LET l == LowerSeq(p)
        wants_convert == HasAny(l, {"convert", "change", "export"})
    IN
    \/ wants_convert /\ HasAny(l, {"ppt", "pptx", "powerpoint"})
    \/ wants_convert /\ HasAny(l, {"xls", "xlsx", "excel", "csv"})
    \/ wants_convert /\ HasAny(l, {"htm", "html"})
    \/ HasAny(l, {"password", "encrypt", "decrypt", "unlock", "protect"})
    \/ HasAny(l, {"edit", "annotate", "highlight"}) /\ HasAny(l, {"pdf", "pdfs", "doc.pdf"})

\* _is_explicitly_unsupported_request: the keyword scan for conversions to
\* office and web formats, security and signing workflows, and edits of a PDF.
\* "pdf" in p is a substring test; the words that contain it are listed.
_is_explicitly_unsupported_request(p) ==
    LET l == LowerSeq(p)
        wants_convert == HasAny(l, {"convert", "change", "export"})
    IN
    \/ wants_convert /\ HasAny(l, {"ppt", "pptx", "powerpoint"})
    \/ wants_convert /\ HasAny(l, {"xls", "xlsx", "excel", "csv"})
    \/ wants_convert /\ HasAny(l, {"htm", "html"})
    \/ HasAny(l, {"password", "encrypt", "decrypt", "unlock", "protect"})
    \/ HasAny(l, {"sign", "signature", "esign", "e-sign"})
    \/ HasAny(l, {"edit", "annotate", "highlight"}) /\ HasAny(l, {"pdf", "pdfs", "doc.pdf"})

\* _has_explicit_order_words
OrderWords == {"then", "after", "before", "first", "second", "finally"}

_has_explicit_order_words(p) == HasAny(LowerSeq(p), OrderWords)

\* the operation words of _insert_missing_and_between_ops
OpWords == {"compress", "merge", "combine", "join", "split", "extract", "keep",
            "delete", "remove", "convert", "rotate", "reorder", "watermark",
            "ocr", "image", "images", "docx", "word", "txt"}

\* _insert_missing_and_between_ops: re.sub over non-overlapping pairs, left to right
RECURSIVE _insert_missing_and_between_ops(_)
_insert_missing_and_between_ops(p) ==
    IF Len(p) < 2 THEN p
    ELSE IF Lower(p[1]) \in OpWords /\ Lower(p[2]) \in OpWords
         THEN <<p[1], "and", p[2]>> \o _insert_missing_and_between_ops(SubSeq(p, 3, Len(p)))
         ELSE <<p[1]>> \o _insert_missing_and_between_ops(Tail(p))

\* _split_clauses_no_order
_split_clauses_no_order(p) ==
    LET s == _insert_missing_and_between_ops(Words(_fix_common_connector_typos(p))) IN
    IF s = <<>> \/ _has_explicit_order_words(s) THEN <<>>
    ELSE LET parts == SplitOn(s, {"and"}) IN SubSeq(parts, 1, Min(6, Len(parts)))

\* the words of the model that are a number, with or without a sign after it
\* that ends the word for a regular expression, and the number they hold
NumberWords == {"90", "180", "270", "50%"}

NumberOf(w) ==
    CASE w = "90" -> 90
      [] w = "180" -> 180
      [] w = "270" -> 270
      [] OTHER -> 50

\* re.search(r"-?\d+", ...): the words of the model that hold a digit
WordsWithDigit == NumberWords \cup {"1mb", "2mb", "10mb", "1-3"}

\* re.sub(r"\b\d+\s*degrees?\b", "", s): a number and the word after it
without_degrees(c) ==
    LET drop(i) == \/ /\ c[i] \in NumberWords /\ i < Len(c)
                      /\ Lower(c[i + 1]) \in {"degree", "degrees"}
                   \/ /\ Lower(c[i]) \in {"degree", "degrees"} /\ i > 1
                      /\ c[i - 1] \in NumberWords
        kept == {i \in 1..Len(c) : ~drop(i)}
    IN [k \in 1..Cardinality(kept) |->
           c[CHOOSE i \in kept : Cardinality({j \in kept : j <= i}) = k]]

\* _canonicalize_clause
_canonicalize_clause(c) ==
    LET s == IF HasTok(LowerSeq(c), "compress") THEN without_degrees(c) ELSE c
        lower == LowerSeq(s)
    IN
    IF lower \in {<<"png">>, <<"jpg">>, <<"jpeg">>}
    THEN <<"export", "pages", "as", lower[1], "images">>
    ELSE IF lower \in {<<"docx">>, <<"word">>} THEN <<"convert", "to", "docx">>
    ELSE IF lower = <<"txt">> THEN <<"extract", "text">>
    ELSE IF lower = <<"ocr">> THEN <<"ocr", "this">>
    ELSE IF HasAny(lower, {"rotate", "turn", "straight", "flip"}) /\ ~HasAny(lower, WordsWithDigit)
    THEN (IF HasTok(lower, "flip") THEN <<"rotate", "180", "degrees">>
          ELSE <<"rotate", "90", "degrees">>)
    ELSE s

DocxWords == {"convert", "docx", "word"}

ImageWords == {"png", "jpg", "jpeg", "image", "images"}

\* re.search(r"\bextract\s+text\b|\btxt\b", ...)
names_text(l) == Adj(l, {"extract"}, {"text"}) \/ HasTok(l, "txt")

\* re.search(r"\bsplit\s*to\s*files\b|\bseparate\s+pdfs\b", ...)
names_split_to_files(l) ==
    Adj3(l, {"split"}, {"to"}, {"files"}) \/ Adj(l, {"separate"}, {"pdfs"})

\* _terminal_type
_terminal_type(c) ==
    LET l == LowerSeq(c) IN
    IF HasAny(l, DocxWords) THEN "docx"
    ELSE IF HasAny(l, ImageWords) THEN "images"
    ELSE IF names_text(l) THEN "text"
    ELSE IF names_split_to_files(l) THEN "zip"
    ELSE None

\* _clause_priority (lower runs earlier): the first rule that matches decides
_clause_priority(c, files) ==
    LET l == LowerSeq(c) IN
    IF Adj3(l, {"image", "images"}, {"to", "into"}, {"pdf"}) THEN 0
    ELSE IF HasAny(l, MergeWords) /\ Len(files) >= 2 THEN 1
    ELSE IF HasTok(l, "ocr") THEN 2
    ELSE IF HasAny(l, {"delete", "remove"}) THEN 10
    ELSE IF HasAny(l, {"split", "extract", "keep"}) THEN 11
    ELSE IF HasAny(l, {"reorder", "swap"}) THEN 12
    ELSE IF HasAny(l, {"rotate", "turn", "straight", "flip"}) THEN 13
    ELSE IF HasTok(l, "watermark") THEN 20
    ELSE IF Adj(l, {"page"}, {"number", "numbers"}) THEN 21
    ELSE IF HasTok(l, "compress") THEN 30
    ELSE IF HasAny(l, DocxWords) THEN 90
    ELSE IF HasAny(l, ImageWords) THEN 91
    ELSE IF names_text(l) THEN 92
    ELSE IF names_split_to_files(l) THEN 93
    ELSE 50

\* sorted(clauses, key=_clause_priority): a stable sort
RECURSIVE InsertByPriority(_, _, _)
InsertByPriority(x, s, files) ==
    IF s = <<>> THEN <<x>>
    ELSE IF _clause_priority(Head(s), files) <= _clause_priority(x, files)
         THEN <<Head(s)>> \o InsertByPriority(x, Tail(s), files)
         ELSE <<x>> \o s

RECURSIVE SortedByPriority(_, _)
SortedByPriority(s, files) ==
    IF s = <<>> THEN <<>>
    ELSE InsertByPriority(s[Len(s)], SortedByPriority(SubSeq(s, 1, Len(s) - 1), files), files)

\* the keys of the dict "terminals", in insertion order
RECURSIVE TerminalKeys(_)
TerminalKeys(cs) ==
    IF cs = <<>> THEN <<>>
    ELSE LET front == TerminalKeys(SubSeq(cs, 1, Len(cs) - 1))
             t == _terminal_type(cs[Len(cs)])
         IN IF t = None \/ \E i \in 1..Len(front) : front[i] = t
            THEN front ELSE Append(front, t)

\* terminals[t]: the last clause of terminal type t
TerminalClause(cs, t) ==
    cs[CHOOSE i \in 1..Len(cs) :
          /\ _terminal_type(cs[i]) = t
          /\ \A j \in (i + 1)..Len(cs) : _terminal_type(cs[j]) # t]

\* _auto_order_multi_op_no_order: None, the ordered prompt, or the raised
\* CLARIFICATION_NEEDED with one option per terminal type
_auto_order_multi_op_no_order(p, files) ==
    LET clauses == _split_clauses_no_order(p) IN
    IF Len(clauses) < 2
    THEN [kind |-> "none", prompt |-> <<>>, options |-> NoOptions, clauses |-> <<>>]
    ELSE LET normalized == [i \in 1..Len(clauses) |-> _canonicalize_clause(clauses[i])]
             keys == TerminalKeys(normalized)
             others == SelectSeq(normalized, LAMBDA c : _terminal_type(c) = None)
         IN IF Len(keys) >= 2
            THEN [kind |-> "raise", prompt |-> <<>>,
                  options |-> [k \in 1..Len(keys) |->
                      JoinAndThen(SortedByPriority(
                          Append(others, TerminalClause(normalized, keys[k])), files))],
                  clauses |-> <<>>]
            ELSE With(SortedByPriority(normalized, files), LAMBDA ordered_clauses :
                      [kind |-> "ordered", prompt |-> JoinAndThen(ordered_clauses),
                       options |-> NoOptions, clauses |-> ordered_clauses])


\* the text captured by  \bwatermark\b(?:\s+(?:with|text|as))?\s+(.+)$
WatermarkText(p) ==
    LET w == Words(p)
        i == FirstIn(w, {"watermark"})
    IN IF i = 0 \/ i = Len(w) THEN <<>>
       ELSE IF Lower(w[i + 1]) \in {"with", "text", "as"} /\ i + 2 <= Len(w)
            THEN SubSeq(w, i + 2, Len(w))
            ELSE SubSeq(w, i + 1, Len(w))

\* the options of the watermark question
WATERMARK_OPTIONS == << <<"watermark", "CONFIDENTIAL">>, <<"watermark", "DRAFT">> >>

\* _infer_compress_preset
_infer_compress_preset(p) ==
    IF HasAny(LowerSeq(p), {"tiny", "smallest", "max", "maximum", "strong", "strongly"})
    THEN "screen"
    ELSE IF HasAny(LowerSeq(p), {"slight", "slightly", "light", "lightly", "minor"})
    THEN "printer"
    ELSE "ebook"

\* compress( this)?( pdf)? by (\d{1,3})% : single blanks, any case
PercentMatch(p) ==
    \E i \in 1..(Len(p) - 2) :
        /\ Lower(p[i]) = "compress"
        /\ Lower(p[i + 1]) = "by"
        /\ p[i + 2] = "50%"

\* str.strip() on a text
RECURSIVE Strip(_)
Strip(p) ==
    IF p = <<>> THEN p
    ELSE IF Head(p) = "" THEN Strip(Tail(p))
    ELSE IF p[Len(p)] = "" THEN Strip(SubSeq(p, 1, Len(p) - 1))
    ELSE p

\* app.utils.RE_EXPLICIT_ORDER.search
RE_EXPLICIT_ORDER(p) == HasAny(LowerSeq(p), OrderWords)

\* the families counted through app.utils.RE_*_OPS
RE_OPS_hits(p) ==
    LET l == LowerSeq(p) IN
      (IF HasAny(l, MergeWords) THEN 1 ELSE 0)
    + (IF HasAny(l, {"split", "extract", "keep"}) THEN 1 ELSE 0)
    + (IF HasAny(l, {"delete", "remove"}) THEN 1 ELSE 0)
    + (IF HasAny(l, {"compress", "smaller", "shrink"}) THEN 1 ELSE 0)
    + (IF HasAny(l, DocxWords) THEN 1 ELSE 0)
    + (IF \/ HasAny(l, {"rotate", "turn", "flip"})
          \/ HasAny(l, {"reorder", "swap", "reverse"})
          \/ HasTok(l, "watermark")
          \/ Adj(l, {"page"}, {"number", "numbers"})
          \/ HasTok(l, "ocr")
          \/ HasAny(l, ImageWords)
       THEN 1 ELSE 0)

\* _looks_like_multi_operation_prompt
_looks_like_multi_operation_prompt(p) == RE_EXPLICIT_ORDER(p) \/ RE_OPS_hits(p) >= 2

\* app.utils.RE_AND_THEN.split: the text cut at "and then" / "then"; the
\* pattern has one group, so the separators are among the parts
RECURSIVE RE_AND_THEN_split(_)
RE_AND_THEN_split(p) ==
    LET i == FirstIn(p, {"then"}) IN
    IF i = 0 THEN (IF p = <<>> THEN <<>> ELSE <<p>>)
    ELSE LET with_and == i > 1 /\ Lower(p[i - 1]) = "and"
             last == IF with_and THEN i - 2 ELSE i - 1
         IN (IF last >= 1 THEN <<SubSeq(p, 1, last)>> ELSE <<>>)
            \o <<SubSeq(p, last + 1, i)>>
            \o RE_AND_THEN_split(SubSeq(p, i + 1, Len(p)))

\* _split_two_step_explicit_order: (first, second) around the first separator
_split_two_step_explicit_order(p) ==
    LET w == Words(p)
        i == FirstIn(w, {"then"})
        last == IF i > 1 /\ Lower(w[i - 1]) = "and" THEN i - 2 ELSE i - 1
    IN IF i = 0 \/ last < 1 \/ i = Len(w) THEN <<>>
       ELSE <<SubSeq(w, 1, last), SubSeq(w, i + 1, Len(w))>>

\* the answer of ai_parser.parse_intent, as clarify_intent turns it into a
\* result; "fail" is any other ValueError
LlmResult(llm, sorry) ==
    CASE llm = "intent" -> ClarificationResult(<<ParsedIntent("llm_plan", <<>>)>>, None, NoOptions)
      [] llm = "clarify" -> ClarificationResult(NoIntent, Q_LLM, NoOptions)
      [] llm = "clarify_options" -> ClarificationResult(NoIntent, Q_LLM, LLM_OPTIONS)
      [] llm = "unsupported" -> ClarificationResult(NoIntent, UNSUPPORTED_REPLY, NoOptions)
      [] OTHER -> ClarificationResult(NoIntent, sorry, NoOptions)

NoResult == ClarificationResult(NoIntent, None, NoOptions)

Q_TWO_PDFS == "Upload at least 2 PDFs to merge"

\* str.endswith of the image extensions, on the names of the uploads of the
\* requests
endswith_image(name) == name \in {"a.png", "b.png"}

\* str.endswith('.pdf'), on the names of the uploads of the requests
endswith_pdf(name) == name \in {"doc.pdf", "a.pdf", "b.pdf"}

\* clarify_intent, the shortcuts that come before the orderer: unsupported
\* requests, the hard-coded pipelines of a PDF upload (merge or watermark
\* with compression, merge with watermark), a merge of one file, conversion
\* to Word or to images
ShortcutResult(prompt, files) ==
    LET w == Words(prompt)
        l == LowerSeq(w)
        num_files == Len(files)
        wants_merge == HasAny(l, MergeWords)
        wants_watermark == HasTok(l, "watermark")
        wants_compress == HasAny(l, {"compress", "smaller", "shrink", "tiny"})
        wants_convert == HasAny(l, {"convert", "change"})
        wants_word == HasAny(l, {"word", "docx", "doc"})
        wants_images == HasAny(l, {"image", "images", "img", "png", "jpg", "jpeg"})
    IN
    IF _is_explicitly_unsupported_request(l)
    THEN ClarificationResult(NoIntent, UNSUPPORTED_REPLY, NoOptions)
    ELSE IF wants_merge /\ wants_compress /\ num_files >= 2
    THEN ClarificationResult(
            <<ParsedIntent("merge", <<>>),
              ParsedIntent("compress", <<_infer_compress_preset(w)>>)>>, None, NoOptions)
    ELSE IF wants_merge /\ wants_watermark /\ num_files >= 2 /\ WatermarkText(prompt) # <<>>
    THEN ClarificationResult(
            <<ParsedIntent("merge", <<>>),
              ParsedIntent("watermark", <<WatermarkText(prompt)[1]>>)>>, None, NoOptions)
    ELSE IF wants_watermark /\ wants_compress /\ WatermarkText(prompt) # <<>>
    THEN ClarificationResult(
            <<ParsedIntent("watermark", <<WatermarkText(prompt)[1]>>),
              ParsedIntent("compress", <<_infer_compress_preset(w)>>)>>, None, NoOptions)
    ELSE IF wants_merge /\ num_files = 1
    THEN ClarificationResult(NoIntent, Q_TWO_PDFS, NoOptions)
    ELSE IF wants_convert /\ wants_word /\ endswith_pdf(files[1])
    THEN ClarificationResult(<<ParsedIntent("pdf_to_docx", <<>>)>>, None, NoOptions)
    ELSE IF wants_convert /\ wants_images /\ endswith_pdf(files[1])
    THEN ClarificationResult(
            <<ParsedIntent("pdf_to_images",
                           <<IF HasAny(l, {"jpg", "jpeg"}) THEN "jpg" ELSE "png">>)>>,
            None, NoOptions)
    ELSE NoResult

\* clarify_intent, a prompt that is only a format
FormatOnlyResult(user_prompt) ==
    LET prompt_compact == LowerSeq(Strip(user_prompt)) IN
    IF prompt_compact \in {<<"png">>, <<"jpg">>, <<"jpeg">>, <<"img">>,
                           <<"to", "img">>, <<"to", "image">>, <<"to", "images">>}
    THEN ClarificationResult(
            <<ParsedIntent("pdf_to_images",
                           <<IF prompt_compact \in {<<"jpg">>, <<"jpeg">>} THEN "jpg" ELSE "png">>)>>,
            None, NoOptions)
    ELSE IF prompt_compact \in {<<"docx">>, <<"word">>}
    THEN ClarificationResult(<<ParsedIntent("pdf_to_docx", <<>>)>>, None, NoOptions)
    ELSE IF prompt_compact = <<"txt">>
    THEN ClarificationResult(<<ParsedIntent("extract_text", <<>>)>>, None, NoOptions)
    ELSE IF prompt_compact = <<"ocr">>
    THEN ClarificationResult(<<ParsedIntent("ocr", <<>>)>>, None, NoOptions)
    ELSE NoResult

\* clarify_intent, the watermark heuristic
WatermarkResult(user_prompt) ==
    IF WatermarkText(user_prompt) = <<>>
    THEN ClarificationResult(NoIntent, Q_WATERMARK, WATERMARK_OPTIONS)
    ELSE ClarificationResult(
            <<ParsedIntent("watermark", WatermarkText(user_prompt))>>, None, NoOptions)

\* clarify_intent, the merge pattern: the first of the single-operation
\* patterns
MergeResult(user_prompt, files) ==
    IF Len(files) >= 2 /\ HasAny(LowerSeq(user_prompt), MergeWords)
    THEN ClarificationResult(<<ParsedIntent("merge", <<>>)>>, None, NoOptions)
    ELSE NoResult

\* _extract_page_range_tokens: "page" or "pages" before a digit, or a range
_extract_page_range_tokens(p) ==
    LET l == LowerSeq(p) IN
    HasTok(l, "1-3") \/ Adj(l, {"page", "pages"}, WordsWithDigit)

\* _options_for_pages_question
_options_for_pages_question(prefix) ==
    << <<prefix, "pages", "1">>, <<prefix, "pages", "1-2">>, <<prefix, "pages", "1-3">>,
       <<"all", "pages">> >>

Q_KEEP_PAGES == "Which pages should I split/keep? (example: 1-3)"

Q_DELETE_PAGES == "Which pages should I delete? (example: 2,4-6)"

\* _parse_page_ranges(text) != []: a prompt of words holds a list of pages
\* when exactly one of its words holds digits
_parse_page_ranges(p) == Cardinality({i \in 1..Len(p) : p[i] \in WordsWithDigit}) = 1

Q_NEW_ORDER == "What is the new page order? (example: 2,1,3)"

REORDER_OPTIONS == << <<"reorder", "pages", "to", "2,1,3">>, <<"reverse", "all", "pages">> >>

\* clarify_intent 3337-3367, the reorder pattern: m is the first "to" or "as"
\* of the prompt with what follows it
ReorderResult(user_prompt) ==
    LET l == LowerSeq(user_prompt)
        is_reverse == HasTok(l, "reverse")
        i == FirstIn(l, {"to", "as"})
        m == i > 0 /\ i < Len(l)
        order == m /\ l[i + 1] \in WordsWithDigit
    IN IF (is_reverse /\ ~m) \/ order
       THEN ClarificationResult(<<ParsedIntent("reorder", <<>>)>>, None, NoOptions)
       ELSE ClarificationResult(NoIntent, Q_NEW_ORDER, REORDER_OPTIONS)

\* clarify_intent 3312-3402, the single-operation patterns: merge, delete,
\* reorder, watermark, page numbers, split to files
SingleOpResult(user_prompt, files) ==
    LET l == LowerSeq(user_prompt) IN
    IF MergeResult(user_prompt, files) # NoResult THEN MergeResult(user_prompt, files)
    ELSE IF HasAny(l, {"delete", "remove"})
    THEN (IF _parse_page_ranges(user_prompt)
          THEN ClarificationResult(<<ParsedIntent("delete", <<>>)>>, None, NoOptions)
          ELSE ClarificationResult(NoIntent, Q_DELETE_PAGES,
                                   _options_for_pages_question("delete")))
    ELSE IF HasAny(l, {"reorder", "swap", "reverse"}) THEN ReorderResult(user_prompt)
    ELSE IF HasTok(l, "watermark") THEN WatermarkResult(user_prompt)
    ELSE IF Adj(l, {"page"}, {"number", "numbers"}) \/ Adj(l, {"number"}, {"pages"})
    THEN ClarificationResult(<<ParsedIntent("page_numbers", <<>>)>>, None, NoOptions)
    ELSE IF names_split_to_files(l) \/ Adj(l, {"each"}, {"page"})
    THEN ClarificationResult(<<ParsedIntent("split_to_files", <<>>)>>, None, NoOptions)
    ELSE NoResult

\* clarify_intent, the degrees of the rotate pattern: a direction, "flip", the
\* first number of the prompt brought to a right angle, or 90
RotateDegrees(user_prompt) ==
    LET l == LowerSeq(user_prompt)
        normalized == NumberOf(l[FirstIn(l, NumberWords)]) % 360
        away(d) == Min((normalized - d) % 360, (d - normalized) % 360)
    IN
    IF HasAny(l, {"left", "anti", "anticlock", "counter"}) THEN 270
    ELSE IF HasAny(l, {"right", "clockwise"}) THEN 90
    ELSE IF HasTok(l, "flip") THEN 180
    ELSE IF FirstIn(l, NumberWords) = 0 \/ normalized = 0 THEN 90
    ELSE CHOOSE d \in {90, 180, 270} :
            \A e \in {90, 180, 270} : away(d) < away(e) \/ (away(d) = away(e) /\ d <= e)

\* clarify_intent, the rotate pattern
RotateResult(user_prompt) ==
    LET l == LowerSeq(user_prompt) IN
    IF \/ HasAny(l, {"rotate", "rotat", "turn", "flip", "straight"})
       \/ (Len(Strip(l)) = 1 /\ Strip(l)[1] \in {"90", "180", "270"})
    THEN ClarificationResult(
            <<ParsedIntent("rotate", <<RotateDegrees(user_prompt)>>)>>, None, NoOptions)
    ELSE NoResult

\* the words of the model that are a size in megabytes, and the size
SizeWords == {"1mb", "2mb", "10mb"}

TargetMb(w) ==
    CASE w = "1mb" -> 1
      [] w = "2mb" -> 2
      [] OTHER -> 10

\* compress( this| pdf)?( to| under)?\s*(\d+)\s*mb : the position of the size,
\* 0 when the prompt has no match
MbMatch(p) ==
    LET l == LowerSeq(p)
        after_object(i) == IF i < Len(l) /\ l[i + 1] \in {"this", "pdf"} THEN i + 1 ELSE i
        after_to(i) == IF i < Len(l) /\ l[i + 1] \in {"to", "under"} THEN i + 1 ELSE i
        size_at(i) == after_to(after_object(i)) + 1
        found == {i \in 1..Len(l) :
                     /\ l[i] = "compress"
                     /\ size_at(i) <= Len(l)
                     /\ l[size_at(i)] \in SizeWords}
    IN IF found = {} THEN 0
       ELSE size_at(CHOOSE i \in found : \A j \in found : i <= j)

\* clarify_intent, the single-operation patterns and the LLM parser after them
PatternResult(user_prompt, llm, on_disk) ==
    IF MbMatch(user_prompt) # 0
    THEN ClarificationResult(
            <<ParsedIntent("compress_to_target",
                           <<TargetMb(Lower(user_prompt[MbMatch(user_prompt)]))>>)>>,
            None, NoOptions)
    ELSE IF PercentMatch(user_prompt) /\ on_disk
    THEN ClarificationResult(<<ParsedIntent("compress_to_target", <<"50%">>)>>, None, NoOptions)
    ELSE IF RotateResult(user_prompt) # NoResult THEN RotateResult(user_prompt)
    ELSE IF HasTok(LowerSeq(user_prompt), "compress")
    THEN ClarificationResult(
            <<ParsedIntent("compress", <<_infer_compress_preset(user_prompt)>>)>>, None, NoOptions)
    ELSE LlmResult(llm, Q_SORRY)

\* clarify_intent(prompt, file_names, last_question="", allow_multi=False): the
\* deterministic parse of one clause.  The orderer and the multi-operation
\* path are behind "if allow_multi" and are not entered.
clarify_single_op(prompt, llm, on_disk, files) ==
    IF ShortcutResult(prompt, files) # NoResult THEN ShortcutResult(prompt, files)
    ELSE IF FormatOnlyResult(prompt) # NoResult THEN FormatOnlyResult(prompt)
    ELSE IF SingleOpResult(prompt, files) # NoResult THEN SingleOpResult(prompt, files)
    ELSE PatternResult(prompt, llm, on_disk)

\* _fallback_parse_multi_step_pipeline: every part parsed on its own
_fallback_parse_multi_step_pipeline(p, llm, on_disk, files) ==
    LET w == Words(p)
        parts == RE_AND_THEN_split(w)
        steps == SubSeq(parts, 1, Min(6, Len(parts)))
        r(i) == clarify_single_op(steps[i], llm, on_disk, files).intent
    IN IF ~HasTok(LowerSeq(w), "then") \/ Len(steps) < 2 THEN NoIntent
       ELSE IF \A i \in 1..Len(steps) : Len(r(i)) = 1
            THEN [i \in 1..Len(steps) |-> r(i)[1]]
            ELSE NoIntent

\* _fallback_parse_two_step_pipeline
_fallback_parse_two_step_pipeline(p, llm, on_disk, files) ==
    LET two == _split_two_step_explicit_order(p) IN
    IF two = <<>> THEN NoIntent
    ELSE LET ra == clarify_single_op(two[1], llm, on_disk, files).intent
             rb == clarify_single_op(two[2], llm, on_disk, files).intent
         IN IF Len(ra) = 1 /\ Len(rb) = 1 THEN <<ra[1], rb[1]>> ELSE NoIntent

\* _detect_op_families
_detect_op_families(p) ==
    LET l == LowerSeq(p) IN
         (IF HasAny(l, MergeWords) THEN {"merge"} ELSE {})
    \cup (IF HasAny(l, {"split", "extract", "keep"}) THEN {"split"} ELSE {})
    \cup (IF HasAny(l, {"delete", "remove"}) THEN {"delete"} ELSE {})
    \cup (IF HasAny(l, {"compress", "smaller", "size"}) THEN {"compress"} ELSE {})
    \cup (IF HasAny(l, {"reorder", "order", "swap", "reverse"}) THEN {"reorder"} ELSE {})
    \cup (IF HasTok(l, "watermark") THEN {"watermark"} ELSE {})
    \cup (IF Adj(l, {"page"}, {"number", "numbers"}) THEN {"page_numbers"} ELSE {})
    \cup (IF HasAny(l, {"ocr", "scanned", "selectable", "editable", "readable"})
          THEN {"ocr"} ELSE {})
    \cup (IF HasAny(l, {"rotate", "turn", "straight", "flip"}) THEN {"rotate"} ELSE {})
    \cup (IF HasAny(l, DocxWords) THEN {"convert"} ELSE {})
    \cup (IF HasAny(l, {"png", "jpg", "jpeg", "image", "images"}) THEN {"images"} ELSE {})
    \cup (IF names_split_to_files(l) THEN {"split_to_files"} ELSE {})
    \cup (IF Adj(l, {"extract"}, {"text"}) \/ Adj(l, {"text"}, {"only"})
          THEN {"extract_text"} ELSE {})

\* _extract_two_clauses_from_prompt: the text around the first "and"
_extract_two_clauses_from_prompt(p) ==
    LET s == _insert_missing_and_between_ops(Words(p))
        i == FirstIn(s, {"and"})
    IN IF _has_explicit_order_words(s) \/ i <= 1 \/ i = Len(s) THEN <<>>
       ELSE <<SubSeq(s, 1, i - 1), SubSeq(s, i + 1, Len(s))>>

Q_ORDER == "Which should happen first? (click an option below)"

\* _maybe_order_ambiguity_options; NoResult stands for the return value None.
\* Every "try: ai_parser.parse_intent(ordered) ... except Exception: pass"
\* returns the plan of the LLM and goes on when the call raises.
_maybe_order_ambiguity_options(p, llm, on_disk, files) ==
    LET probe == _insert_missing_and_between_ops(Words(p))
        ops == _detect_op_families(probe)
        clauses == _extract_two_clauses_from_prompt(probe)
        a == _canonicalize_clause(clauses[1])
        b == _canonicalize_clause(clauses[2])
        names_rotate(c) == HasAny(LowerSeq(c), {"rotate", "turn", "straight", "flip"})
        rotate_clause == IF clauses = <<>> THEN <<"rotate", "90", "degrees">>
                         ELSE IF names_rotate(a) THEN a
                         ELSE IF names_rotate(b) THEN b
                         ELSE <<"rotate", "90", "degrees">>
        compress_clause == IF clauses = <<>> THEN <<"compress">>
                           ELSE IF names_rotate(a) THEN b
                           ELSE a
        a_is_compress == HasTok(LowerSeq(a), "compress")
        b_is_compress == HasTok(LowerSeq(b), "compress")
        one_compress == a_is_compress # b_is_compress
        ordered == IF a_is_compress THEN b \o <<"and", "then">> \o a
                   ELSE a \o <<"and", "then">> \o b
    IN
    With(_fallback_parse_two_step_pipeline(ordered, llm, on_disk, files), LAMBDA fallback :
    With(clarify_single_op(rotate_clause, llm, on_disk, files).intent, LAMBDA r1 :
    With(clarify_single_op(compress_clause, llm, on_disk, files).intent, LAMBDA r2 :
    IF Cardinality(ops) < 2 \/ _has_explicit_order_words(probe)
    THEN NoResult
    ELSE IF "split" \in ops /\ ~_extract_page_range_tokens(probe)
    THEN ClarificationResult(NoIntent, Q_KEEP_PAGES, _options_for_pages_question("keep"))
    ELSE IF "delete" \in ops /\ ~_extract_page_range_tokens(probe)
    THEN ClarificationResult(NoIntent, Q_DELETE_PAGES, _options_for_pages_question("delete"))
    ELSE IF /\ ops = {"rotate", "compress"} /\ files # <<>>
            /\ Len(r1) = 1 /\ Len(r2) = 1
    THEN ClarificationResult(<<r1[1], r2[1]>>, None, NoOptions)
    ELSE IF "merge" \in ops /\ Len(files) >= 2 /\ clauses # <<>> /\ llm = "intent"
    THEN LlmResult(llm, Q_SORRY)
    ELSE IF "ocr" \in ops /\ clauses # <<>> /\ llm = "intent"
    THEN LlmResult(llm, Q_SORRY)
    ELSE IF /\ "compress" \in ops
            /\ ("convert" \in ops \/ "images" \in ops)
            /\ clauses # <<>>
            /\ llm = "intent"
    THEN LlmResult(llm, Q_SORRY)
    ELSE IF "compress" \in ops /\ clauses # <<>> /\ one_compress /\ fallback # NoIntent
    THEN ClarificationResult(fallback, None, NoOptions)
    ELSE IF "compress" \in ops /\ clauses # <<>> /\ one_compress /\ llm = "intent"
    THEN LlmResult(llm, Q_SORRY)
    ELSE IF clauses # <<>>
    THEN ClarificationResult(NoIntent, Q_ORDER,
            <<a \o <<"and", "then">> \o b, b \o <<"and", "then">> \o a>>)
    ELSE NoResult)))

\* clarify_intent, the multi-operation path: the LLM parser first, the
\* deterministic fallbacks when it fails
MultiOpResult(user_prompt, llm, on_disk, files) ==
    With(_fallback_parse_multi_step_pipeline(user_prompt, llm, on_disk, files), LAMBDA multi_step :
    With(_fallback_parse_two_step_pipeline(user_prompt, llm, on_disk, files), LAMBDA two_step :
    IF llm # "fail" THEN LlmResult(llm, Q_SORRY_MULTI)
    ELSE IF multi_step # NoIntent
    THEN ClarificationResult(multi_step, None, NoOptions)
    ELSE IF two_step # NoIntent
    THEN ClarificationResult(two_step, None, NoOptions)
    ELSE ClarificationResult(NoIntent, Q_SORRY_MULTI, NoOptions)))

\* clarify_intent with allow_multi=True, after the orderer: user_prompt is
\* the prompt as the orderer left it
InOrderResult(user_prompt, llm, on_disk, files) ==
    With(_maybe_order_ambiguity_options(user_prompt, llm, on_disk, files), LAMBDA ambiguity :
    IF ~_has_explicit_order_words(user_prompt) /\ ambiguity # NoResult
    THEN ambiguity
    ELSE IF FormatOnlyResult(user_prompt) # NoResult THEN FormatOnlyResult(user_prompt)
    ELSE IF /\ ~_looks_like_multi_operation_prompt(user_prompt)
            /\ SingleOpResult(user_prompt, files) # NoResult
    THEN SingleOpResult(user_prompt, files)
    ELSE IF _looks_like_multi_operation_prompt(user_prompt)
    THEN MultiOpResult(user_prompt, llm, on_disk, files)
    ELSE PatternResult(user_prompt, llm, on_disk))

\* clarify_intent with allow_multi=True, after the shortcuts: the orderer
\* rewrites the prompt, or raises its question, or leaves the prompt alone
OrderedResult(prompt, llm, on_disk, files) ==
    With(_auto_order_multi_op_no_order(prompt, files), LAMBDA auto :
    IF auto.kind = "raise"
    THEN ClarificationResult(NoIntent, Q_OUTPUTS, auto.options)
    ELSE InOrderResult(IF auto.kind = "ordered" THEN auto.prompt ELSE prompt,
                       llm, on_disk, files))

\* clarify_intent(user_prompt, file_names, allow_multi=...) for an upload of
\* PDFs.  llm is the answer of the LLM parser to the calls of this request,
\* on_disk whether the upload is still on disk.
clarify_intent(prompt, allow_multi, llm, on_disk, files) ==
    IF ~allow_multi THEN clarify_single_op(prompt, llm, on_disk, files)
    ELSE IF ShortcutResult(prompt, files) # NoResult THEN ShortcutResult(prompt, files)
    ELSE OrderedResult(prompt, llm, on_disk, files)

\* clarify_intent together with the place it returns from: "scan" is the
\* return of the unsupported-capability scan, the first statement after the
\* prompt is normalised; every call of ai_parser.parse_intent lies in the
\* part after it
clarify_traced(prompt, allow_multi, llm, on_disk, files) ==
    [stage |-> IF _is_explicitly_unsupported_request(Words(prompt))
               THEN "scan" ELSE "after_scan",
     result |-> clarify_intent(prompt, allow_multi, llm, on_disk, files)]


(***************************************************************************)
(* PART 3.  The session store and the request handlers (app/main.py)       *)
(*                                                                         *)
(* SessionState objects live in a heap: the store _SESSIONS and the        *)
(* requests in flight hold references to them.  updated_at is "recent"     *)
(* while it lies inside the eviction window and "expired" after it.        *)
(* last_success_prompt is written and never read for a decision; it is     *)
(* left out.  An empty sequence stands for None / an empty list or text.   *)
(***************************************************************************)
SessionState ==
    [updated_at |-> "recent",
     pending_question |-> None,
     pending_options |-> <<>>,
     pending_base_instruction |-> <<>>,
     last_success_intent |-> NoIntent,
     intent_status |-> "UNRESOLVED",
     intent_source |-> None,
     locked_action |-> <<>>]

\* _normalize_ws: " ".join(s.split()).lower().strip()
_normalize_ws(s) == LowerSeq(Words(s))

\* _clear_pending
_clear_pending(st) ==
    [st EXCEPT !.pending_question = None,
               !.pending_options = <<>>,
               !.pending_base_instruction = <<>>,
               !.updated_at = "recent"]

\* _reset_intent_lock
_reset_intent_lock(st) ==
    [st EXCEPT !.intent_status = "UNRESOLVED",
               !.intent_source = None,
               !.locked_action = <<>>,
               !.updated_at = "recent"]

FormatWords == {"pdf", "docx", "png", "jpg", "jpeg"}

\* _canonicalize_button_action.  The labels "compress to <n>mb", "ocr",
\* "split", "merge", "rotate", "flatten" and "page number" need words that no
\* prompt of the model has.
_canonicalize_button_action(label) ==
    LET raw == normalize_whitespace(label)
        low == LowerSeq(raw)
        n == Len(low)
    IN IF n = 3 /\ low[1] \in FormatWords /\ low[2] = "to" /\ low[3] \in FormatWords
       THEN <<"convert", low[1], "to", low[3]>>
       ELSE IF n >= 3 /\ low[1] = "convert" /\ low[2] = "to" THEN low
       ELSE IF n >= 2 /\ low[n - 1] = "to" /\ low[n] = "docx"
            THEN <<"convert", "pdf", "to", "docx">>
       ELSE IF n >= 2 /\ low[n - 1] = "to" /\ low[n] = "pdf" THEN <<"convert", "to", "pdf">>
       ELSE IF HasTok(low, "compress") THEN <<"compress">>
       ELSE IF HasTok(low, "watermark") THEN <<"add", "watermark">>
       ELSE low

\* _lock_intent
_lock_intent(st, action_text, source) ==
    [st EXCEPT !.intent_status = "RESOLVED",
               !.intent_source = source,
               !.locked_action = IF source = "button"
                                 THEN _canonicalize_button_action(action_text)
                                 ELSE normalize_whitespace(action_text),
               !.updated_at = "recent"]

\* _is_button_confirmation without the comparison with the offered options:
\* every text that is not blank counts as a selection
_is_button_confirmation_any_text(st, incoming_text) == _normalize_ws(incoming_text) # <<>>

\* _is_button_confirmation
_is_button_confirmation(st, incoming_text) ==
    /\ st.pending_options # <<>>
    /\ _normalize_ws(incoming_text) # <<>>
    /\ \E i \in 1..Len(st.pending_options) :
          /\ st.pending_options[i] # <<>>
          /\ _normalize_ws(st.pending_options[i]) = _normalize_ws(incoming_text)

\* _infer_slot_kind, on the questions clarify_intent asks
_infer_slot_kind(question) ==
    CASE question = Q_ORDER -> "order"
      [] question = Q_SORRY -> "rotate_degrees"
      [] question = Q_ROTATE_DEGREES -> "rotate_degrees"
      [] question = Q_SORRY_MULTI -> "compress_size"
      [] OTHER -> "freeform"

\* app.utils.RE_ROTATE_DEGREES.fullmatch: the number of a reply that is a
\* number, with or without the unit after it; <<>> when the reply is not one
RE_ROTATE_DEGREES_fullmatch(r) ==
    IF /\ Len(r) \in {1, 2}
       /\ r[1] \in {"90", "180", "270"}
       /\ (Len(r) = 2 => r[2] \in {"deg", "degree", "degrees"})
    THEN <<r[1]>> ELSE <<>>

\* _build_prompt_from_reply.  No reply of the model is a size, a page range or
\* a format, so the kinds other than "order" and "rotate_degrees" append the
\* reply to the base instruction.
_build_prompt_from_reply(base_instruction, question, user_reply) ==
    LET base == normalize_whitespace(base_instruction)
        reply == normalize_whitespace(user_reply)
        r == LowerSeq(reply)
        kind == _infer_slot_kind(question)
    IN IF kind = "order" /\ RE_EXPLICIT_ORDER(reply) THEN reply
       ELSE IF kind = "rotate_degrees" /\ RE_ROTATE_DEGREES_fullmatch(r) # <<>>
       THEN base \o <<"rotate">> \o RE_ROTATE_DEGREES_fullmatch(r) \o <<"degrees">>
       ELSE IF kind = "rotate_degrees" /\ HasTok(r, "left") THEN base \o <<"rotate", "left">>
       ELSE IF kind = "rotate_degrees" /\ HasTok(r, "right") THEN base \o <<"rotate", "right">>
       ELSE IF kind = "rotate_degrees" /\ HasTok(r, "flip")
       THEN base \o <<"rotate", "180", "degrees">>
       ELSE base \o reply

\* _is_short_followup
_is_short_followup(p) == Len(Words(p)) <= 5

\* _rephrase_with_context: the rewritten prompt, <<>> for None
_rephrase_with_context(user_prompt, last_intent) ==
    LET low == LowerSeq(Words(user_prompt))
        last_op == last_intent[Len(last_intent)].op
    IN IF ~_is_short_followup(user_prompt) \/ last_intent = NoIntent THEN <<>>
       ELSE IF low \in {<<"to", "docx">>, <<"as", "docx">>, <<"to", "word">>,
                        <<"as", "word">>, <<"docx">>, <<"word">>}
       THEN <<"convert", "the", "result", "to", "docx">>
       ELSE IF low \in {<<"to", "pdf">>, <<"as", "pdf">>, <<"pdf">>}
       THEN <<"convert", "the", "result", "to", "pdf">>
       ELSE IF low \in {<<"to", "png">>, <<"as", "png">>, <<"png">>, <<"img">>,
                        <<"to", "img">>, <<"to", "image">>, <<"to", "images">>}
       THEN <<"convert", "the", "result", "to", "png", "images">>
       ELSE IF low \in {<<"to", "jpg">>, <<"to", "jpeg">>, <<"as", "jpg">>,
                        <<"jpg">>, <<"jpeg">>}
       THEN <<"convert", "the", "result", "to", "jpg", "images">>
       ELSE IF /\ HasAny(low, {"compress", "smaller", "reduce", "shrink"})
               /\ last_op \notin {"compress", "compress_to_target"}
       THEN <<"compress", "the", "result">>
       ELSE IF HasAny(low, {"merge", "combine", "together"}) /\ last_op # "merge"
       THEN <<"merge", "all", "the", "files", "together">>
       ELSE <<>>

\* the slot filling of the handlers: the prompt that is parsed
SlotFilledPrompt(st, active_prompt) ==
    IF st.pending_question # None /\ st.pending_base_instruction # <<>>
    THEN IF /\ _normalize_ws(active_prompt) # <<>>
            /\ \E i \in 1..Len(st.pending_options) :
                  _normalize_ws(st.pending_options[i]) = _normalize_ws(active_prompt)
         THEN active_prompt
         ELSE IF Len(_normalize_ws(active_prompt)) <= 6
              THEN _build_prompt_from_reply(st.pending_base_instruction,
                                            st.pending_question, active_prompt)
              ELSE active_prompt
    ELSE active_prompt

\* the "same / again / repeat" shortcut
RepeatsLast(st, active_prompt) ==
    /\ st.last_success_intent # NoIntent
    /\ HasAny(LowerSeq(Words(active_prompt)), {"same", "again", "repeat"})

\* what one call of clarify_intent can return: the LLM parser answers one way
\* or another and the upload is on disk or not
ParseResults(p) ==
    {clarify_intent(p, TRUE, llm, on_disk, file_names) : llm \in LlmAnswers, on_disk \in BOOLEAN}

\* the calls of clarify_intent of one request.  A locked request parses once.
\* A request that is not locked parses again when the first result has no plan
\* and _rephrase_with_context rewrites the prompt.
RequestParseResults(p, locked, st) ==
    LET rephrased == IF locked THEN <<>>
                     ELSE _rephrase_with_context(p, st.last_success_intent)
    IN With([q \in {p, rephrased} |-> ParseResults(q)], LAMBDA results :
       UNION {IF first.intent = NoIntent /\ first.clarification # None /\ rephrased # <<>>
              THEN results[rephrased]
              ELSE {first} : first \in results[p]})

\* the kind of response a request without a plan ends in
ReplyKind(result) ==
    IF result.clarification = UNSUPPORTED_REPLY THEN "unsupported" ELSE "clarification"

(***************************************************************************)
(* PART 4.  The state machines                                             *)
(***************************************************************************)
VARIABLES
    rp_pc, rp_prompt, rp_out,       \* one call of ResolutionPipeline.resolve
    rp_rephraser,                   \* how the rewrite collaborator behaves during it
    cl_pc, cl_prompt, cl_out,       \* one call of clarify_intent and the
    cl_stage,                       \* place it returned from
    sessions,                       \* _SESSIONS: session id -> object, 0 if absent
    heap,                           \* the SessionState objects that are referenced
    sessions_lock,                  \* the holder of _SESSIONS_LOCK
    th,                             \* the request each worker thread handles
    cleaner,                        \* the scheduler thread in cleanup_old_sessions
    last_outcome,                   \* how the previous request of the session ended
    requests,                       \* number of requests received
    ph_pc, ph_settings, ph_idx,     \* one call of rephrase_with_fallback or of
    ph_call, ph_out,                \* AIParser.parse_intent
    rt_pc, rt_guards, rt_target,    \* one request whose attempts are handed to the
    rt_retry_count, rt_outcome,     \* retry guards
    rt_retries,
    up_pc, up_files, up_prompt,     \* one request with its uploaded files, from
    up_out,                         \* clarify_intent to the plan it returns
    ex_pc, ex_files, ex_plan,       \* one call of execute_operation_pipeline
    ex_intents, ex_idx, ex_current,
    ex_out,
    va_pc, va_operations,           \* one call of the pipeline validator or of
    va_source, va_target, va_out,   \* the conflict classifier
    va_classification,
    jb_pc, jb_files, jb_prompt,     \* one background job: its position, its
    jb_out, jb_stage, jb_job,       \* inputs, what clarify_intent returned
                                    \* and from where, and its JobInfo
    sf_pc, sf_question, sf_base,    \* one reply to a pending question: the
    sf_options, sf_reply,           \* question, the instruction it was asked
    sf_prompt, sf_out,              \* about, the prompt built and its result
    \* Part 12: the ordering of a request with several operations
    od_pc, od_prompt, od_files,     \* the request: its text and its uploads
    od_llm, od_last_question,       \* the answer of the LLM parser, the session
    od_out, od_prev,                \* the ordering, and that of the request before
    od_plan,                        \* the result of clarify_intent
    nz_pc,                          \* the normalizer machine: where it stands
    nz_fn, nz_text,                 \* the function and the text it is given
    nz_once, nz_twice,              \* the text normalized once and twice
    jq_jobs, jq_index, jq_thread,   \* the job queue: the JobInfo objects, the ids in
    jq_processing_count, jq_cutoff,  \* self._jobs, each job thread, the slot counter,
    jq_cancelled, jq_invoked,       \* the jobs past the cutoff, the ones cancelled
    jq_progress                     \* and run, the progress of each job

rvars == <<rp_pc, rp_prompt, rp_out, rp_rephraser>>

cvars == <<cl_pc, cl_prompt, cl_out, cl_stage>>

svars == <<sessions, heap, sessions_lock, th, cleaner, last_outcome, requests>>

phvars == <<ph_pc, ph_settings, ph_idx, ph_call, ph_out>>

rtvars == <<rt_pc, rt_guards, rt_target, rt_retry_count, rt_outcome, rt_retries>>

upvars == <<up_pc, up_files, up_prompt, up_out>>

exvars == <<ex_pc, ex_files, ex_plan, ex_intents, ex_idx, ex_current, ex_out>>

vavars == <<va_pc, va_operations, va_source, va_target, va_out, va_classification>>

jbvars == <<jb_pc, jb_files, jb_prompt, jb_out, jb_stage, jb_job>>

sfvars == <<sf_pc, sf_question, sf_base, sf_options, sf_reply, sf_prompt, sf_out>>

odvars == <<od_pc, od_prompt, od_files, od_llm, od_last_question, od_out, od_prev, od_plan>>

nzvars == <<nz_pc, nz_fn, nz_text, nz_once, nz_twice>>

jqvars == <<jq_jobs, jq_index, jq_thread, jq_processing_count, jq_cutoff, jq_cancelled,
           jq_invoked, jq_progress>>

\* the variables of the machines of Parts 5 to 10
xvars == <<phvars, rtvars, upvars, exvars, vavars, jbvars, sfvars, odvars, nzvars, jqvars>>

vars == <<rvars, cvars, svars, xvars>>

\* the session the requests of the model belong to
SessionIds == {"s1"}

\* the event loop, which runs one handler at a time, and the one thread of the
\* job queue (max_concurrent = 1)
Workers == {"web", "job"}

ObjIds == 1..(Cardinality(Workers) + 1)

MaxRequests == 2

\* what the user sends
UserPrompts ==
    {<<"add", "watermark">>, <<"watermark", "", "draft">>, <<"again">>,
     <<"convert", "to", "docx", "and", "compress", "by", "50%">>}

InputSources == {None, "button"}

\* a worker that handles no request
NoRequest ==
    [pc |-> "idle", endpoint |-> None, prompt |-> <<>>, input_source |-> None,
     session |-> 0, created |-> FALSE, found_locked |-> FALSE, selected |-> FALSE,
     locked_mode |-> FALSE, prompt_to_parse |-> <<>>, intent |-> NoIntent,
     parsed |-> FALSE, outcome |-> None, options |-> <<>>, left_locked |-> FALSE]

NoOutcome == [kind |-> None, options |-> <<>>]

RInit ==
    /\ rp_pc = "idle"
    /\ rp_prompt = <<>>
    /\ rp_out = [kind |-> None, parsing |-> NoParsing]
    /\ rp_rephraser = None

CInit ==
    /\ cl_pc = "idle"
    /\ cl_prompt = <<>>
    /\ cl_out = ClarificationResult(NoIntent, None, NoOptions)
    /\ cl_stage = None

SInit ==
    /\ sessions = [sid \in SessionIds |-> 0]
    /\ heap = <<>>
    /\ sessions_lock = None
    /\ th = [t \in Workers |-> NoRequest]
    /\ cleaner = "idle"
    /\ last_outcome = NoOutcome
    /\ requests = 0

\* no call of the collaborators is in progress
NoCall == [site |-> None, timeout |-> None, network |-> None]

\* no RephraseResult
NoRephrase == [text |-> None, provider |-> None]

NoSettings == [baseten_api_key |-> FALSE, groq_api_key |-> FALSE, third |-> FALSE]

PhInit ==
    /\ ph_pc = "idle"
    /\ ph_settings = NoSettings
    /\ ph_idx = 0
    /\ ph_call = NoCall
    /\ ph_out = NoRephrase

\* no attempt has been made
NoAttempt == [kind |-> None, achieved_size_mb |-> 0, error_message |-> None]

RtInit ==
    /\ rt_pc = "idle"
    /\ rt_guards = None
    /\ rt_target = 0
    /\ rt_retry_count = 0
    /\ rt_outcome = NoAttempt
    /\ rt_retries = <<>>

UpInit ==
    /\ up_pc = "idle"
    /\ up_files = <<>>
    /\ up_prompt = <<>>
    /\ up_out = NoResult

ExInit ==
    /\ ex_pc = "idle"
    /\ ex_files = <<>>
    /\ ex_plan = <<>>
    /\ ex_intents = <<>>
    /\ ex_idx = 0
    /\ ex_current = None
    /\ ex_out = [kind |-> None, message |-> None]

VaInit ==
    /\ va_pc = "idle"
    /\ va_operations = <<>>
    /\ va_source = None
    /\ va_target = None
    /\ va_out = [status |-> None, is_valid |-> FALSE, original_pipeline |-> <<>>,
                 adjusted_pipeline |-> <<>>, user_message |-> None,
                 skip_reason |-> None]
    /\ va_classification = [error_type |-> None, action |-> None,
                            can_recover |-> FALSE, recovery_action |-> None]

JbInit ==
    /\ jb_pc = "idle"
    /\ jb_files = <<>>
    /\ jb_prompt = <<>>
    /\ jb_out = NoResult
    /\ jb_stage = None
    /\ jb_job = [status |-> "pending", result_status |-> None, result_message |-> None]

SfInit ==
    /\ sf_pc = "idle"
    /\ sf_question = None
    /\ sf_base = <<>>
    /\ sf_options = NoOptions
    /\ sf_reply = <<>>
    /\ sf_prompt = <<>>
    /\ sf_out = NoResult

\* no ordering yet
NoOrdering == [kind |-> "none", clauses |-> <<>>, result |-> NoResult]

OdInit ==
    /\ od_pc = "idle"
    /\ od_prompt = <<>>
    /\ od_files = <<>>
    /\ od_llm = None
    /\ od_last_question = None
    /\ od_out = NoOrdering
    /\ od_prev = NoOrdering
    /\ od_plan = NoResult

NzInit ==
    /\ nz_pc = "idle"
    /\ nz_fn = None
    /\ nz_text = <<>>
    /\ nz_once = <<>>
    /\ nz_twice = <<>>

\* the jobs of the queue of Part 14
MaxJobs == 2

JobIds == 1..MaxJobs

\* JobQueue(max_concurrent=1, ...): the global queue
max_concurrent == 1

\* JobInfo as create_job makes it
NewJob == [status |-> "pending", result_status |-> None, result_message |-> None]

JqInit ==
    /\ jq_jobs = [j \in JobIds |-> NewJob]
    /\ jq_index = {}
    /\ jq_thread = [j \in JobIds |-> "none"]
    /\ jq_processing_count = 0
    /\ jq_cutoff = 0
    /\ jq_cancelled = {}
    /\ jq_invoked = {}
    /\ jq_progress = [j \in JobIds |-> 0]

XInit == PhInit /\ RtInit /\ UpInit /\ ExInit /\ VaInit /\ JbInit /\ SfInit /\ OdInit /\ NzInit /\ JqInit

Init == RInit /\ CInit /\ SInit /\ XInit

(***************************************************************************)
(* ResolutionPipeline.resolve                                              *)
(***************************************************************************)
\* a caller invokes ResolutionPipeline.resolve(prompt)
ResolveCall ==
    /\ rp_pc = "idle"
    /\ \E p \in RPrompts : rp_prompt' = p
    /\ \E answer \in RephraseAnswers : rp_rephraser' = answer
    /\ rp_pc' = "stage1"
    /\ rp_out' = [kind |-> None, parsing |-> NoParsing]
    /\ UNCHANGED <<cvars, svars, xvars>>

\* resolve: Stage 1; a parse above the threshold is returned to the caller,
\* an exception raised inside stage1_direct_parse propagates out of resolve
ResolveStage1 ==
    /\ rp_pc = "stage1"
    /\ rp_out' = resolve(rp_prompt, rp_rephraser)
    /\ rp_pc' = "returned"
    /\ UNCHANGED <<rp_prompt, rp_rephraser, cvars, svars, xvars>>

\* ResolutionPipeline.stage3_ask_clarification(prompt, parsing) called as the
\* static method it is, with the parse of the prompt or the parse Stage 2
\* came back with (None when the rewrite yields nothing)
Stage3Ask ==
    /\ rp_pc = "idle"
    /\ \E p \in RPrompts, answer \in RephraseAnswers :
          /\ rp_prompt' = p
          /\ rp_rephraser' = answer
          /\ \E parsing \in {parse_command(p), stage2_llm_rephrase(p, answer)} :
                rp_out' = [kind |-> "clarification", parsing |-> NoParsing,
                           clarification |-> stage3_ask_clarification(parsing)]
    /\ rp_pc' = "asked"
    /\ UNCHANGED <<cvars, svars, xvars>>

\* the caller takes the result and may call again
ResolveDone ==
    /\ rp_pc \in {"returned", "asked"}
    /\ rp_pc' = "idle"
    /\ rp_prompt' = <<>>
    /\ rp_out' = [kind |-> None, parsing |-> NoParsing]
    /\ rp_rephraser' = None
    /\ UNCHANGED <<cvars, svars, xvars>>

RNext == ResolveCall \/ ResolveStage1 \/ Stage3Ask \/ ResolveDone

SpecResolve == Init /\ [][RNext]_vars

(***************************************************************************)
(* clarify_intent as a function of the prompt                              *)
(***************************************************************************)
MaxClarifyLen == 3

CVocab == {"convert", "to", "docx", "png", "and", "then", "compress", "watermark",
           "sign"}

CPrompts ==
    SeqsUpTo(CVocab, MaxClarifyLen)
        \cup {<<"convert", "to", "docx", "and", "png">>,
              <<"docx", "and", "then", "png">>,
              <<"sign", "this", "pdf">>,
              <<"convert", "to", "pptx">>,
              <<"edit", "this", "pdf">>}

\* a caller invokes clarify_intent(prompt, ["doc.pdf"])
ClarifyCall ==
    /\ cl_pc = "idle"
    /\ \E p \in CPrompts : cl_prompt' = p
    /\ cl_pc' = "called"
    /\ cl_out' = ClarificationResult(NoIntent, None, NoOptions)
    /\ cl_stage' = None
    /\ UNCHANGED <<rvars, svars, xvars>>

\* clarify_intent returns; the LLM parser answers one way or another and the
\* upload is on disk or not
ClarifyReturn ==
    /\ cl_pc = "called"
    /\ \E llm \in LlmAnswers, on_disk \in BOOLEAN :
          With(clarify_traced(cl_prompt, TRUE, llm, on_disk, file_names), LAMBDA returned :
              /\ cl_out' = returned.result
              /\ cl_stage' = returned.stage)
    /\ cl_pc' = "returned"
    /\ UNCHANGED <<cl_prompt, rvars, svars, xvars>>

\* the caller takes the result and may call again
ClarifyDone ==
    /\ cl_pc = "returned"
    /\ cl_pc' = "idle"
    /\ cl_prompt' = <<>>
    /\ cl_out' = ClarificationResult(NoIntent, None, NoOptions)
    /\ cl_stage' = None
    /\ UNCHANGED <<rvars, svars, xvars>>

CNext == ClarifyCall \/ ClarifyReturn \/ ClarifyDone

SpecClarify == Init /\ [][CNext]_vars

(***************************************************************************)
(* The handlers, the job thread and the cleanup thread                     *)
(***************************************************************************)
\* the objects something still refers to; the others are garbage
Referenced(st, w) ==
    {st[sid] : sid \in SessionIds} \cup {w[t].session : t \in Workers}

\* a store that owns its records: a record dies when it leaves the store,
\* whatever request still works on it
Collect_store_only(hp, st, w) ==
    [o \in (DOMAIN hp) \cap {st[sid] : sid \in SessionIds} |-> hp[o]]

\* reference counting: an object lives as long as the store or a request
\* refers to it
Collect(hp, st, w) == [o \in (DOMAIN hp) \cap Referenced(st, w) |-> hp[o]]

\* the step of a handler: the new requests, store and objects
Commit(w, st, hp) ==
    /\ th' = w
    /\ sessions' = st
    /\ heap' = Collect(hp, st, w)

\* a "with" block that does not give the lock back
Release_kept(holder) == holder

\* leaving "with _SESSIONS_LOCK:"
Release(holder) == None

\* the object _get_session returns for session id sid
SessionObject(sid) ==
    IF sessions[sid] # 0 THEN sessions[sid]
    ELSE CHOOSE o \in ObjIds : o \notin DOMAIN heap /\ \A p \in ObjIds : p < o => p \in DOMAIN heap

\* the heap after _get_session(sid): a new record if there is none, updated_at
\* set to now
HeapAfterGet(sid) ==
    LET o == SessionObject(sid) IN
    [p \in (DOMAIN heap) \cup {o} |->
        IF p # o THEN heap[p]
        ELSE IF sessions[sid] # 0 THEN [heap[p] EXCEPT !.updated_at = "recent"]
        ELSE SessionState]

\* a request ends: the response, and whether it leaves the session locked
Finish(r, kind, options, st) ==
    [NoRequest EXCEPT !.pc = "done", !.endpoint = r.endpoint,
                      !.found_locked = r.found_locked, !.selected = r.selected,
                      !.locked_mode = r.locked_mode, !.parsed = r.parsed,
                      !.outcome = kind, !.options = options,
                      !.left_locked = (st.intent_status = "RESOLVED")]

\* the "finally" of process_pdfs
FinallyReset(st) == IF st.intent_status = "RESOLVED" THEN _reset_intent_lock(st) ELSE st

\* POST /process arrives and its upload is saved
ProcessRequest ==
    /\ th["web"].pc = "idle"
    /\ requests < MaxRequests
    /\ \E p \in UserPrompts, src \in InputSources :
          th' = [th EXCEPT !["web"] =
                    [NoRequest EXCEPT !.pc = "get_session", !.endpoint = "process",
                                      !.prompt = p, !.input_source = src]]
    /\ requests' = requests + 1
    /\ UNCHANGED <<sessions, heap, sessions_lock, cleaner, last_outcome, rvars, cvars, xvars>>

\* POST /submit, /submit-reuse or /submit-with-upload arrives
SubmitRequest ==
    /\ th["web"].pc = "idle"
    /\ requests < MaxRequests
    /\ \E p \in UserPrompts, src \in InputSources :
          th' = [th EXCEPT !["web"] =
                    [NoRequest EXCEPT !.pc = "get_session", !.endpoint = "submit",
                                      !.prompt = p, !.input_source = src]]
    /\ requests' = requests + 1
    /\ UNCHANGED <<sessions, heap, sessions_lock, cleaner, last_outcome, rvars, cvars, xvars>>

\* JobQueue.create_job(files, prompt, session_id, context_question) starts a
\* thread that takes the one slot and calls process_job_background; a job has
\* no input_source
CreateJob ==
    /\ th["job"].pc = "idle"
    /\ requests < MaxRequests
    /\ \E p \in UserPrompts :
          th' = [th EXCEPT !["job"] =
                    [NoRequest EXCEPT !.pc = "get_session", !.endpoint = "job",
                                      !.prompt = p]]
    /\ requests' = requests + 1
    /\ UNCHANGED <<sessions, heap, sessions_lock, cleaner, last_outcome, rvars, cvars, xvars>>

\* _get_session: "with _SESSIONS_LOCK:" is entered
GetSessionAcquire(t) ==
    /\ th[t].pc = "get_session"
    /\ sessions_lock = None
    /\ sessions_lock' = t
    /\ th' = [th EXCEPT ![t].pc = "in_get_session"]
    /\ UNCHANGED <<sessions, heap, cleaner, last_outcome, requests, rvars, cvars, xvars>>

\* _get_session: the record is looked up or created, touched and returned
GetSessionBody(t) ==
    /\ th[t].pc = "in_get_session"
    /\ LET o == SessionObject("s1") IN
       Commit([th EXCEPT ![t].pc = "decide", ![t].session = o,
                         ![t].created = (sessions["s1"] = 0)],
              [sessions EXCEPT !["s1"] = o],
              HeapAfterGet("s1"))
    /\ sessions_lock' = Release(t)
    /\ UNCHANGED <<cleaner, last_outcome, requests, rvars, cvars, xvars>>

\* the lock decision of process_pdfs and process_job_background
Decide(t, button) ==
    LET r == th[t]
        st == heap[r.session]
        found == st.intent_status = "RESOLVED" /\ st.locked_action # <<>>
        locks == ~found /\ (button \/ _is_button_confirmation(st, r.prompt))
        st2 == IF locks THEN _lock_intent(st, r.prompt, "button") ELSE st
        locked_prompt == st2.locked_action
    IN /\ r.pc = "decide"
       /\ Commit([th EXCEPT ![t] =
                    [r EXCEPT !.pc = "prepare", !.prompt = <<>>, !.input_source = None,
                              !.created = FALSE,
                              !.found_locked = found,
                              !.selected = _is_button_confirmation(st, r.prompt),
                              !.locked_mode = (found \/ locks) /\ locked_prompt # <<>>,
                              !.prompt_to_parse = IF (found \/ locks) /\ locked_prompt # <<>>
                                                  THEN locked_prompt ELSE r.prompt]],
                 sessions,
                 [heap EXCEPT ![r.session] = st2])
       /\ UNCHANGED <<sessions_lock, cleaner, last_outcome, requests, rvars, cvars, xvars>>

ProcessDecide ==
    /\ th["web"].endpoint = "process"
    /\ Decide("web", th["web"].input_source = "button")

\* getattr(job, "input_source", None) is None for every job
JobDecide == Decide("job", FALSE)

\* submit_job, submit_job_reuse, submit_with_preupload: the lock is set, then
\* create_job is called with the keyword input_source, which it does not
\* take: TypeError, answered with HTTP 500
SubmitDecide ==
    LET r == th["web"]
        st == heap[r.session]
        locks == r.input_source = "button" \/ _is_button_confirmation(st, r.prompt)
        st2 == IF locks THEN _lock_intent(st, r.prompt, "button") ELSE st
    IN /\ r.pc = "decide"
       /\ r.endpoint = "submit"
       /\ Commit([th EXCEPT !["web"] =
                    Finish([r EXCEPT !.selected = _is_button_confirmation(st, r.prompt),
                                     !.prompt_to_parse =
                                         IF locks /\ st2.locked_action # <<>>
                                         THEN st2.locked_action ELSE r.prompt],
                           "error", <<>>, st2)],
                 sessions,
                 [heap EXCEPT ![r.session] = st2])
       /\ UNCHANGED <<sessions_lock, cleaner, last_outcome, requests, rvars, cvars, xvars>>

CompressToTarget == <<ParsedIntent("compress_to_target", <<"50%">>)>>

\* process_pdfs up to the call of clarify_intent or execute_operation
ProcessPrepare ==
    LET r == th["web"]
        st == heap[r.session]
        active_prompt == r.prompt_to_parse
    IN /\ r.pc = "prepare"
       /\ r.endpoint = "process"
       /\ IF PercentMatch(active_prompt)
          THEN \E on_disk \in BOOLEAN :
                  IF on_disk
                  THEN Commit([th EXCEPT !["web"] =
                                  [r EXCEPT !.pc = "execute", !.prompt_to_parse = <<>>,
                                            !.intent = CompressToTarget]],
                              sessions, heap)
                  ELSE Commit([th EXCEPT !["web"] = Finish(r, "error", <<>>, FinallyReset(st))],
                              sessions, [heap EXCEPT ![r.session] = FinallyReset(st)])
          ELSE IF r.locked_mode
          THEN Commit([th EXCEPT !["web"] = [r EXCEPT !.pc = "clarify", !.parsed = TRUE]],
                      sessions, heap)
          ELSE IF RepeatsLast(st, active_prompt)
          THEN Commit([th EXCEPT !["web"] =
                          [r EXCEPT !.pc = "repeat", !.prompt_to_parse = <<>>,
                                    !.intent = st.last_success_intent]],
                      sessions, heap)
          ELSE Commit([th EXCEPT !["web"] =
                          [r EXCEPT !.pc = "clarify", !.parsed = TRUE,
                                    !.prompt_to_parse = SlotFilledPrompt(st, active_prompt)]],
                      sessions, heap)
       /\ UNCHANGED <<sessions_lock, cleaner, last_outcome, requests, rvars, cvars, xvars>>

\* process_pdfs: clarify_intent has returned
ProcessClarify ==
    LET r == th["web"]
        st == heap[r.session]
    IN /\ r.pc = "clarify"
       /\ r.endpoint = "process"
       /\ \E result \in RequestParseResults(r.prompt_to_parse, r.locked_mode, st) :
             LET cleared == IF r.locked_mode THEN _reset_intent_lock(_clear_pending(st))
                            ELSE _clear_pending(st)
                 asked == IF r.locked_mode THEN _reset_intent_lock(_clear_pending(st))
                          ELSE [st EXCEPT !.pending_question = result.clarification,
                                          !.pending_options = result.options,
                                          !.pending_base_instruction = r.prompt_to_parse]
             IN IF result.intent # NoIntent
                THEN Commit([th EXCEPT !["web"] =
                                [r EXCEPT !.pc = "execute", !.prompt_to_parse = <<>>,
                                          !.intent = result.intent]],
                            sessions, [heap EXCEPT ![r.session] = cleared])
                ELSE Commit([th EXCEPT !["web"] =
                                Finish(r, ReplyKind(result),
                                       IF r.locked_mode THEN <<>> ELSE result.options,
                                       FinallyReset(asked))],
                            sessions, [heap EXCEPT ![r.session] = FinallyReset(asked)])
       /\ UNCHANGED <<sessions_lock, cleaner, last_outcome, requests, rvars, cvars, xvars>>

\* process_pdfs: execute_operation has returned or raised
ProcessExecute ==
    LET r == th["web"]
        st == heap[r.session]
        done == FinallyReset([st EXCEPT !.last_success_intent = r.intent])
    IN /\ r.pc = "execute"
       /\ r.endpoint = "process"
       /\ \E ok \in BOOLEAN :
             IF ok
             THEN Commit([th EXCEPT !["web"] = Finish(r, "plan", <<>>, done)],
                         sessions, [heap EXCEPT ![r.session] = done])
             ELSE Commit([th EXCEPT !["web"] = Finish(r, "error", <<>>, FinallyReset(st))],
                         sessions, [heap EXCEPT ![r.session] = FinallyReset(st)])
       /\ UNCHANGED <<sessions_lock, cleaner, last_outcome, requests, rvars, cvars, xvars>>

\* process_pdfs: the repeated operation has returned or raised
ProcessRepeat ==
    LET r == th["web"]
        st == heap[r.session]
        done == FinallyReset(_reset_intent_lock(_clear_pending(
                    [st EXCEPT !.last_success_intent = r.intent])))
    IN /\ r.pc = "repeat"
       /\ r.endpoint = "process"
       /\ \E ok \in BOOLEAN :
             IF ok
             THEN Commit([th EXCEPT !["web"] = Finish(r, "plan", <<>>, done)],
                         sessions, [heap EXCEPT ![r.session] = done])
             ELSE Commit([th EXCEPT !["web"] = Finish(r, "error", <<>>, FinallyReset(st))],
                         sessions, [heap EXCEPT ![r.session] = FinallyReset(st)])
       /\ UNCHANGED <<sessions_lock, cleaner, last_outcome, requests, rvars, cvars, xvars>>

\* process_job_background up to the call of clarify_intent or
\* execute_operation.  With the upload on disk the percent shortcut builds
\* its plan and goes on to job_queue.set_max_eta, which JobQueue does not
\* have: AttributeError, handled by the outer "except".
JobPrepare ==
    LET r == th["job"]
        st == heap[r.session]
        active_prompt == r.prompt_to_parse
    IN /\ r.pc = "prepare"
       /\ r.endpoint = "job"
       /\ IF PercentMatch(active_prompt)
          THEN \E on_disk \in BOOLEAN :
                  IF on_disk
                  THEN Commit([th EXCEPT !["job"] =
                                  [r EXCEPT !.pc = "recover", !.prompt_to_parse = <<>>,
                                            !.intent = CompressToTarget]],
                              sessions, heap)
                  ELSE Commit([th EXCEPT !["job"] = Finish(r, "error", <<>>, st)],
                              sessions, heap)
          ELSE IF r.locked_mode
          THEN Commit([th EXCEPT !["job"] = [r EXCEPT !.pc = "clarify", !.parsed = TRUE]],
                      sessions, heap)
          ELSE IF RepeatsLast(st, active_prompt)
          THEN Commit([th EXCEPT !["job"] =
                          [r EXCEPT !.pc = "repeat", !.prompt_to_parse = <<>>,
                                    !.intent = st.last_success_intent]],
                      sessions, heap)
          ELSE Commit([th EXCEPT !["job"] =
                          [r EXCEPT !.pc = "clarify", !.parsed = TRUE,
                                    !.prompt_to_parse = SlotFilledPrompt(st, active_prompt)]],
                      sessions, heap)
       /\ UNCHANGED <<sessions_lock, cleaner, last_outcome, requests, rvars, cvars, xvars>>

\* process_job_background: clarify_intent has returned.  A plan goes on to
\* job_queue.set_max_eta and so to the outer "except".
JobClarify ==
    LET r == th["job"]
        st == heap[r.session]
    IN /\ r.pc = "clarify"
       /\ r.endpoint = "job"
       /\ \E result \in RequestParseResults(r.prompt_to_parse, r.locked_mode, st) :
             LET cleared == IF r.locked_mode THEN _reset_intent_lock(_clear_pending(st))
                            ELSE _clear_pending(st)
                 asked == IF r.locked_mode THEN _reset_intent_lock(_clear_pending(st))
                          ELSE [st EXCEPT !.pending_question = result.clarification,
                                          !.pending_options = result.options,
                                          !.pending_base_instruction = r.prompt_to_parse]
             IN IF result.intent # NoIntent
                THEN Commit([th EXCEPT !["job"] =
                                [r EXCEPT !.pc = "recover", !.prompt_to_parse = <<>>,
                                          !.intent = result.intent]],
                            sessions, [heap EXCEPT ![r.session] = cleared])
                ELSE Commit([th EXCEPT !["job"] =
                                Finish(r, ReplyKind(result),
                                       IF r.locked_mode THEN <<>> ELSE result.options,
                                       asked)],
                            sessions, [heap EXCEPT ![r.session] = asked])
       /\ UNCHANGED <<sessions_lock, cleaner, last_outcome, requests, rvars, cvars, xvars>>

\* process_job_background: the repeated operation has returned or raised
JobRepeat ==
    LET r == th["job"]
        st == heap[r.session]
        done == _reset_intent_lock(_clear_pending(
                    [st EXCEPT !.last_success_intent = r.intent]))
    IN /\ r.pc = "repeat"
       /\ r.endpoint = "job"
       /\ \E ok \in BOOLEAN :
             IF ok
             THEN Commit([th EXCEPT !["job"] = Finish(r, "plan", <<>>, done)],
                         sessions, [heap EXCEPT ![r.session] = done])
             ELSE Commit([th EXCEPT !["job"] = Finish(r, "error", <<>>, st)],
                         sessions, heap)
       /\ UNCHANGED <<sessions_lock, cleaner, last_outcome, requests, rvars, cvars, xvars>>

\* the outer "except" of process_job_background: _get_session is entered
JobRecoverAcquire ==
    /\ th["job"].pc = "recover"
    /\ sessions_lock = None
    /\ sessions_lock' = "job"
    /\ th' = [th EXCEPT !["job"].pc = "in_recover"]
    /\ UNCHANGED <<sessions, heap, cleaner, last_outcome, requests, rvars, cvars, xvars>>

\* the outer "except": the record of the session is fetched again, its lock
\* is reset and the job fails with "Unexpected error".  _reset_intent_lock
\* runs right after _get_session has returned; it writes the lock fields only
\* and commutes with the steps of the other threads, so it is part of this step.
JobRecover ==
    LET r == th["job"]
        o == SessionObject("s1")
        hp == HeapAfterGet("s1")
        st == _reset_intent_lock(hp[o])
    IN /\ r.pc = "in_recover"
       /\ Commit([th EXCEPT !["job"] = Finish([r EXCEPT !.session = o], "error", <<>>, st)],
                 [sessions EXCEPT !["s1"] = o],
                 [hp EXCEPT ![o] = st])
       /\ sessions_lock' = Release("job")
       /\ UNCHANGED <<cleaner, last_outcome, requests, rvars, cvars, xvars>>

\* the response is sent (the job result is stored); the worker is free again
Respond(t) ==
    /\ th[t].pc = "done"
    /\ last_outcome' = [kind |-> th[t].outcome, options |-> th[t].options]
    /\ Commit([th EXCEPT ![t] = NoRequest], sessions, heap)
    /\ UNCHANGED <<sessions_lock, cleaner, requests, rvars, cvars, xvars>>

\* time passes: every record is now older than the eviction window
Tick ==
    /\ \E o \in DOMAIN heap : heap[o].updated_at = "recent"
    /\ heap' = [o \in DOMAIN heap |-> [heap[o] EXCEPT !.updated_at = "expired"]]
    /\ UNCHANGED <<sessions, sessions_lock, th, cleaner, last_outcome, requests, rvars, cvars, xvars>>

\* cleanup_old_sessions: "with _SESSIONS_LOCK:" is entered
CleanupAcquire ==
    /\ cleaner = "idle"
    /\ sessions_lock = None
    /\ sessions_lock' = "cleaner"
    /\ cleaner' = "in_cleanup"
    /\ UNCHANGED <<sessions, heap, th, last_outcome, requests, rvars, cvars, xvars>>

\* cleanup_old_sessions: the stale entries are popped from the store
CleanupBody ==
    /\ cleaner = "in_cleanup"
    /\ Commit(th,
              [sid \in SessionIds |->
                  IF sessions[sid] # 0 /\ heap[sessions[sid]].updated_at = "expired"
                  THEN 0 ELSE sessions[sid]],
              heap)
    /\ sessions_lock' = Release("cleaner")
    /\ cleaner' = "idle"
    /\ UNCHANGED <<last_outcome, requests, rvars, cvars, xvars>>

GetSessionAcquireAny == \E t \in Workers : GetSessionAcquire(t)

GetSessionBodyAny == \E t \in Workers : GetSessionBody(t)

RespondAny == \E t \in Workers : Respond(t)

SNext ==
    \/ ProcessRequest \/ SubmitRequest \/ CreateJob
    \/ GetSessionAcquireAny \/ GetSessionBodyAny
    \/ ProcessDecide \/ SubmitDecide \/ JobDecide
    \/ ProcessPrepare \/ ProcessClarify \/ ProcessExecute \/ ProcessRepeat
    \/ JobPrepare \/ JobClarify \/ JobRepeat
    \/ JobRecoverAcquire \/ JobRecover
    \/ RespondAny
    \/ Tick \/ CleanupAcquire \/ CleanupBody

SpecSession == Init /\ [][SNext]_vars

(***************************************************************************)
(* PART 5.  The calls to the external collaborators (app/phraser.py,       *)
(*          app/ai_parser.py)                                              *)
(*                                                                         *)
(* A call that is in flight is the record ph_call: the site that made it,  *)
(* the timeout the site passed to its client (None when it passed none)    *)
(* and what the network does with the request.                             *)
(***************************************************************************)
\* BasetenOpenAICompatRephraser.timeout_s: baseten_timeout_seconds
BASETEN_TIMEOUT_SECONDS == "12.0"

\* what the provider does with one request: it answers with a text, with a
\* blank text, with a text far longer than the prompt, with an error, or it
\* never responds
Networks == {"text", "blank", "long", "error", "silent"}

\* Settings: whether the keys are configured and whether there is a third
\* model (llm_model_rephrase_third, or llm_model_fallback # llm_model)
SettingsSpace ==
    [baseten_api_key : BOOLEAN, groq_api_key : BOOLEAN, third : BOOLEAN]

\* the providers list of rephrase_with_fallback
providers(settings) ==
    IF settings.third THEN <<"baseten", "groq", "groq_third">> ELSE <<"baseten", "groq">>

\* is_configured of the two provider classes
is_configured(provider, settings) ==
    IF provider = "baseten" THEN settings.baseten_api_key ELSE settings.groq_api_key

\* the timeout argument of the blocking call of a site: httpx.Client(timeout=
\* self.timeout_s) for Baseten; Groq(api_key=...) and chat.completions.create
\* are called without one in GroqRephraser.rephrase and in AIParser
ExplicitTimeout(site) ==
    IF site = "baseten" THEN BASETEN_TIMEOUT_SECONDS ELSE None

beside_phraser ==
    <<rvars, cvars, svars, rtvars, upvars, exvars, vavars, jbvars, sfvars, odvars, nzvars, jqvars>>

\* rephrase_with_fallback(user_prompt): a blank prompt returns None at once
RephraseCall ==
    /\ ph_pc = "idle"
    /\ \E settings \in SettingsSpace, blank \in BOOLEAN :
          /\ ph_settings' = settings
          /\ IF blank
             THEN ph_pc' = "returned" /\ ph_idx' = 0
             ELSE ph_pc' = "rephrase" /\ ph_idx' = 1
    /\ ph_out' = NoRephrase
    /\ UNCHANGED <<ph_call, beside_phraser>>

\* the loop "for p in providers: out = p.rephrase(...)": after the last
\* provider None is returned, a provider that is not configured returns None,
\* a configured one sends its request
RephraseProvider ==
    /\ ph_pc = "rephrase"
    /\ IF ph_idx > Len(providers(ph_settings))
       THEN ph_pc' = "returned" /\ ph_out' = NoRephrase /\ UNCHANGED <<ph_idx, ph_call>>
       ELSE LET provider == providers(ph_settings)[ph_idx] IN
            IF ~is_configured(provider, ph_settings)
            THEN /\ ph_idx' = ph_idx + 1
                 /\ UNCHANGED <<ph_pc, ph_call, ph_out>>
            ELSE /\ \E network \in Networks :
                       ph_call' = [site |-> provider,
                                   timeout |-> ExplicitTimeout(provider),
                                   network |-> network]
                 /\ ph_pc' = "calling"
                 /\ UNCHANGED <<ph_idx, ph_out>>
    /\ UNCHANGED <<ph_settings, beside_phraser>>

\* AIParser.parse_intent sends its request to Groq
ParseIntentCall ==
    /\ ph_pc = "idle"
    /\ \E network \in Networks \ {"blank", "long"} :
          ph_call' = [site |-> "groq_parser",
                      timeout |-> ExplicitTimeout("groq_parser"),
                      network |-> network]
    /\ ph_pc' = "calling"
    /\ ph_out' = NoRephrase
    /\ UNCHANGED <<ph_settings, ph_idx, beside_phraser>>

\* how a call that got a response ends at its site
AfterResponse(site, network) ==
    IF site = "groq_parser"
    THEN [pc |-> "returned",
          out |-> [text |-> IF network = "text" THEN "intent" ELSE "ValueError",
                   provider |-> site],
          idx |-> 0]
    ELSE IF network = "text"
    THEN [pc |-> "returned", out |-> [text |-> "rewritten", provider |-> site], idx |-> 0]
    ELSE [pc |-> "rephrase", out |-> NoRephrase, idx |-> ph_idx + 1]

\* the provider responds: a text is the result; a blank text, a text that is
\* too long and an error ("except Exception: return None") send the loop on
ProviderResponds ==
    /\ ph_pc = "calling"
    /\ ph_call.network # "silent"
    /\ LET after == AfterResponse(ph_call.site, ph_call.network) IN
       /\ ph_pc' = after.pc
       /\ ph_out' = after.out
       /\ ph_idx' = IF after.pc = "returned" THEN 0 ELSE after.idx
    /\ ph_call' = NoCall
    /\ UNCHANGED <<ph_settings, beside_phraser>>

\* the timeout the site passed expires: the client raises, the site's
\* "except Exception" turns it into None
ExplicitTimeoutExpires ==
    /\ ph_pc = "calling"
    /\ ph_call.network = "silent"
    /\ ph_call.timeout # None
    /\ LET after == AfterResponse(ph_call.site, "error") IN
       /\ ph_pc' = after.pc
       /\ ph_out' = after.out
       /\ ph_idx' = IF after.pc = "returned" THEN 0 ELSE after.idx
    /\ ph_call' = NoCall
    /\ UNCHANGED <<ph_settings, beside_phraser>>

\* a call without a timeout to a provider that never responds: nothing in
\* the repository ends the wait; whether the client library gives up on its
\* own is outside the program, so the step may or may not happen
ClientGivesUp ==
    /\ ph_pc = "calling"
    /\ ph_call.network = "silent"
    /\ ph_call.timeout = None
    /\ LET after == AfterResponse(ph_call.site, "error") IN
       /\ ph_pc' = after.pc
       /\ ph_out' = after.out
       /\ ph_idx' = IF after.pc = "returned" THEN 0 ELSE after.idx
    /\ ph_call' = NoCall
    /\ UNCHANGED <<ph_settings, beside_phraser>>

\* the caller takes the result
CollaboratorDone ==
    /\ ph_pc = "returned"
    /\ ph_pc' = "idle"
    /\ ph_settings' = NoSettings
    /\ ph_idx' = 0
    /\ ph_out' = NoRephrase
    /\ UNCHANGED <<ph_call, beside_phraser>>

PhNext ==
    \/ RephraseCall
    \/ RephraseProvider
    \/ ParseIntentCall
    \/ ProviderResponds
    \/ ExplicitTimeoutExpires
    \/ ClientGivesUp
    \/ CollaboratorDone

SpecCollaborators == Init /\ [][PhNext]_vars

(***************************************************************************)
(* PART 6.  The retry guards (app/pattern_validation.py,                   *)
(*          app/one_flow_resolver.py)                                      *)
(*                                                                         *)
(* A request enters with a retry count, makes an attempt and hands the     *)
(* outcome of the attempt to the guards together with the number of        *)
(* retries made so far; an answer "retry" leads to one more attempt.       *)
(* Sizes are whole megabytes.                                              *)
(***************************************************************************)
MaxRetryCount == 2

MaxSizeMb == 3

\* error messages of a failed attempt, in lower case
ErrorMessages ==
    {"not xml compatible", "unicode decode failed", "bad encoding",
     "encoding error", "invalid character", "file not found"}

\* any(p in error_lower for p in xml_error_patterns) of
\* PatternValidator.validate_error_for_retry: "xml compatible", "unicode",
\* "encoding error", "character map", "null byte", "invalid character",
\* "codec can't decode", "unencodable character"
is_text_error(error_message) ==
    error_message \in {"not xml compatible", "unicode decode failed",
                       "encoding error", "invalid character"}

\* the same test of DeterministicGuards.check_xml_unicode_error: "xml
\* compatible", "unicode", "encoding", "character", "null byte"
is_xml_error(error_message) ==
    error_message \in {"not xml compatible", "unicode decode failed", "bad encoding",
                       "encoding error", "invalid character"}

NoRetry == [should_retry |-> FALSE, retry_action |-> None]

\* validate_size_target with a second retry: RETRY_NEEDED up to a count of 1
validate_size_target_twice(achieved_size_mb, target_size_mb, retry_count) ==
    IF achieved_size_mb <= target_size_mb THEN NoRetry
    ELSE IF retry_count <= 1
    THEN [should_retry |-> TRUE, retry_action |-> "stronger_preset"]
    ELSE NoRetry

\* PatternValidator.validate_size_target as should_retry_on_size_miss reads
\* it: RETRY_NEEDED is (True, retry_action), every other status (False, None)
validate_size_target(achieved_size_mb, target_size_mb, retry_count) ==
    IF achieved_size_mb <= target_size_mb THEN NoRetry
    ELSE IF retry_count = 0
    THEN [should_retry |-> TRUE, retry_action |-> "stronger_preset"]
    ELSE NoRetry

\* PatternValidator.validate_error_for_retry as should_retry_on_error reads it
validate_error_for_retry(error_message, retry_count) ==
    IF is_text_error(error_message) /\ retry_count = 0
    THEN [should_retry |-> TRUE, retry_action |-> "ocr_fallback"]
    ELSE NoRetry

\* DeterministicGuards.check_size_miss
check_size_miss(achieved_size_mb, target_size_mb, retry_count) ==
    IF achieved_size_mb <= target_size_mb THEN NoRetry
    ELSE IF retry_count = 0
    THEN [should_retry |-> TRUE, retry_action |-> "stronger_preset"]
    ELSE NoRetry

\* DeterministicGuards.check_xml_unicode_error
check_xml_unicode_error(error_message, retry_count) ==
    IF is_xml_error(error_message) /\ retry_count = 0
    THEN [should_retry |-> TRUE, retry_action |-> "ocr_fallback"]
    ELSE NoRetry

\* the two sets of guards
GuardSets == {"PatternValidator", "DeterministicGuards"}

\* the answer of the guard that is responsible for the outcome of an attempt
GuardAnswer(guards, outcome, target_size_mb, retry_count) ==
    IF outcome.kind = "size"
    THEN IF guards = "PatternValidator"
         THEN validate_size_target(outcome.achieved_size_mb, target_size_mb, retry_count)
         ELSE check_size_miss(outcome.achieved_size_mb, target_size_mb, retry_count)
    ELSE IF guards = "PatternValidator"
         THEN validate_error_for_retry(outcome.error_message, retry_count)
         ELSE check_xml_unicode_error(outcome.error_message, retry_count)

\* the outcomes an attempt can have: an output of some size or an error
AttemptOutcomes ==
    {[kind |-> "size", achieved_size_mb |-> a, error_message |-> None] : a \in 1..MaxSizeMb}
    \cup {[kind |-> "error", achieved_size_mb |-> 0, error_message |-> e] : e \in ErrorMessages}

beside_retry ==
    <<rvars, cvars, svars, phvars, upvars, exvars, vavars, jbvars, sfvars, odvars, nzvars, jqvars>>

\* a request with a size target enters with the retry count of its caller
RetryRequest ==
    /\ rt_pc = "idle"
    /\ \E guards \in GuardSets : rt_guards' = guards
    /\ \E target \in 1..MaxSizeMb : rt_target' = target
    /\ \E retry_count \in 0..MaxRetryCount : rt_retry_count' = retry_count
    /\ rt_pc' = "attempt"
    /\ rt_outcome' = NoAttempt
    /\ rt_retries' = <<>>
    /\ UNCHANGED beside_retry

\* the operation runs and ends with an outcome
Attempt ==
    /\ rt_pc = "attempt"
    /\ \E outcome \in AttemptOutcomes : rt_outcome' = outcome
    /\ rt_pc' = "guard"
    /\ UNCHANGED <<rt_guards, rt_target, rt_retry_count, rt_retries, beside_retry>>

\* the guard is asked with the retry count; "retry" is recorded with the
\* count it was answered for and leads to the next attempt
GuardAnswers ==
    /\ rt_pc = "guard"
    /\ LET answer == GuardAnswer(rt_guards, rt_outcome, rt_target, rt_retry_count) IN
       IF answer.should_retry
       THEN /\ rt_retries' = Append(rt_retries,
                                    [retry_action |-> answer.retry_action,
                                     retry_count |-> rt_retry_count])
            /\ rt_retry_count' = rt_retry_count + 1
            /\ rt_pc' = "attempt"
            /\ rt_outcome' = NoAttempt
       ELSE /\ rt_pc' = "done"
            /\ UNCHANGED <<rt_retries, rt_retry_count, rt_outcome>>
    /\ UNCHANGED <<rt_guards, rt_target, beside_retry>>

\* the request ends with the outcome of its last attempt
RetryDone ==
    /\ rt_pc = "done"
    /\ rt_pc' = "idle"
    /\ rt_guards' = None
    /\ rt_target' = 0
    /\ rt_retry_count' = 0
    /\ rt_outcome' = NoAttempt
    /\ rt_retries' = <<>>
    /\ UNCHANGED beside_retry

RtNext == RetryRequest \/ Attempt \/ GuardAnswers \/ RetryDone

SpecRetry == Init /\ [][RtNext]_vars

(***************************************************************************)
(* PART 7.  A request with several uploaded files (app/main.py,            *)
(* app/clarification_layer.py)                                             *)
(*                                                                         *)
(* The request handler hands the prompt and the names of the uploaded      *)
(* files to clarify_intent with allow_multi=True and takes the plan it     *)
(* returns.                                                                *)
(***************************************************************************)
MaxUploadPromptLen == 3

\* the uploads of a request: one PDF or two
Uploads == {file_names, <<"a.pdf", "b.pdf">>}

UVocab == {"merge", "docx", "and", "then", "compress"}

\* prompts that name a target size
SizePrompts == {<<"merge", "these", "and", "then", "compress", "to", "2mb">>,
                <<"merge", "and", "compress", "to", "2mb">>,
                <<"compress", "to", "2mb">>,
                <<"compress", "this", "under", "10mb">>}

UPrompts == SeqsUpTo(UVocab, MaxUploadPromptLen) \cup SizePrompts

beside_upload ==
    <<rvars, cvars, svars, phvars, rtvars, exvars, vavars, jbvars, sfvars, odvars, nzvars, jqvars>>

\* a request arrives with its files and its prompt
UploadRequest ==
    /\ up_pc = "idle"
    /\ \E files \in Uploads, p \in UPrompts :
          /\ up_files' = files
          /\ up_prompt' = p
    /\ up_pc' = "called"
    /\ up_out' = NoResult
    /\ UNCHANGED beside_upload

\* clarify_intent(prompt, file_names, allow_multi=True) returns; the LLM
\* parser answers one way or another
UploadClarify ==
    /\ up_pc = "called"
    /\ \E llm \in LlmAnswers, on_disk \in BOOLEAN :
          up_out' = clarify_intent(up_prompt, TRUE, llm, on_disk, up_files)
    /\ up_pc' = "returned"
    /\ UNCHANGED <<up_files, up_prompt, beside_upload>>

\* the handler is done with the request
UploadDone ==
    /\ up_pc = "returned"
    /\ up_pc' = "idle"
    /\ up_files' = <<>>
    /\ up_prompt' = <<>>
    /\ up_out' = NoResult
    /\ UNCHANGED beside_upload

UpNext == UploadRequest \/ UploadClarify \/ UploadDone

SpecUpload == Init /\ [][UpNext]_vars

(***************************************************************************)
(* PART 8.  The file-type guards and the pipeline executor                 *)
(* (app/file_type_guards.py, app/main.py)                                  *)
(*                                                                         *)
(* A file is the record of what the guards read from its name: its         *)
(* extension and whether the name carries "_compressed" or "_shrunk".  A   *)
(* plan is the sequence of the operation types of its steps.               *)
(***************************************************************************)
\* class FileType
FileType == {"pdf", "docx", "jpg", "png", "jpeg", "zip", "txt"}

File(ext, marked) == [ext |-> ext, marked |-> marked]

\* get_file_type
get_file_type(filename) == IF filename.ext \in FileType THEN filename.ext ELSE None

\* GuardResult(action, message); NoGuard stands for the return value None
GuardResult(action, message) == [action |-> action, message |-> message]

NoGuard == GuardResult(None, None)

image_types == {"jpg", "png", "jpeg"}

\* UniversalRedundancyGuards.check_image_to_image
check_image_to_image(operation, current_type) ==
    IF operation \in {"convert_to_image", "to_image"} /\ current_type \in image_types
    THEN GuardResult("skip", "Already an image")
    ELSE NoGuard

\* UniversalRedundancyGuards.check_pdf_to_pdf
check_pdf_to_pdf(operation, current_type) ==
    IF operation \in {"convert_to_pdf", "to_pdf"} /\ current_type = "pdf"
    THEN GuardResult("skip", "Already a PDF")
    ELSE NoGuard

\* UniversalRedundancyGuards.check_docx_to_docx
check_docx_to_docx(operation, current_type) ==
    IF operation \in {"convert_to_docx", "to_docx"} /\ current_type = "docx"
    THEN GuardResult("skip", "Already a Word document")
    ELSE NoGuard

\* UniversalRedundancyGuards.check_already_compressed
check_already_compressed(operation, filename) ==
    IF operation \in {"compress", "compress_to_target"} /\ filename.marked
    THEN GuardResult("skip", "Already optimized for size")
    ELSE NoGuard

\* UniversalRedundancyGuards.check_single_page_split
check_single_page_split(operation, page_count) ==
    IF operation = "split" /\ page_count = 1
    THEN GuardResult("skip", "Only one page available")
    ELSE NoGuard

\* UniversalRedundancyGuards.run_all_redundancy_guards: the first guard that
\* is triggered
run_all_redundancy_guards(operation, current_type, filename, page_count) ==
    LET guards == <<check_image_to_image(operation, current_type),
                    check_pdf_to_pdf(operation, current_type),
                    check_docx_to_docx(operation, current_type),
                    check_already_compressed(operation, filename),
                    check_single_page_split(operation, page_count)>>
    IN IF \A i \in 1..Len(guards) : guards[i] = NoGuard THEN NoGuard
       ELSE guards[CHOOSE i \in 1..Len(guards) :
                      /\ guards[i] # NoGuard
                      /\ \A j \in 1..(i - 1) : guards[j] = NoGuard]

\* OperationFileTypeCompatibility.MATRIX
Entry(valid_types, message, block) ==
    [valid_types |-> valid_types, message |-> message, block |-> block]

MATRIX ==
    [operation \in {"merge", "split", "delete", "reorder", "clean", "rotate",
                    "flatten", "ocr", "enhance_scan", "compress",
                    "compress_to_target", "convert_to_image", "convert_to_pdf",
                    "convert_to_docx"} |->
        CASE operation = "merge" -> Entry({"pdf"}, "Merge supports PDFs only", TRUE)
          [] operation = "split" -> Entry({"pdf"}, "Split supports PDFs only", TRUE)
          [] operation = "delete" -> Entry({"pdf"}, "Delete pages supports PDFs only", TRUE)
          [] operation = "reorder" -> Entry({"pdf"}, "Reorder works on PDFs only", TRUE)
          [] operation = "clean" -> Entry({"pdf"}, "Cleaning works on PDFs only", TRUE)
          [] operation = "rotate" -> Entry({"pdf"}, "Rotate works on PDFs only", TRUE)
          [] operation = "flatten" -> Entry({"pdf"}, "Flatten works on PDFs only", TRUE)
          [] operation = "ocr" ->
                Entry({"pdf"} \cup image_types, "OCR supports scanned PDFs or images only", TRUE)
          [] operation = "enhance_scan" ->
                Entry({"pdf"} \cup image_types, "Enhancing scan", FALSE)
          [] operation = "compress" ->
                Entry({"pdf", "docx"} \cup image_types, "Compressing file", FALSE)
          [] operation = "compress_to_target" ->
                Entry({"pdf", "docx"} \cup image_types, "Compressing to target size", FALSE)
          [] operation = "convert_to_image" -> Entry({"pdf"}, "PDF to image conversion", TRUE)
          [] operation = "convert_to_pdf" ->
                Entry({"docx"} \cup image_types, "Document to PDF conversion", TRUE)
          [] OTHER -> Entry({"pdf"}, "PDF to DOCX conversion", TRUE)]

\* OperationFileTypeCompatibility.check_compatibility: an incompatibility
\* that does not block is logged and nothing is returned
check_compatibility(operation, file_type) ==
    IF operation \notin DOMAIN MATRIX THEN NoGuard
    ELSE IF file_type \notin MATRIX[operation].valid_types /\ MATRIX[operation].block
    THEN GuardResult("block", MATRIX[operation].message)
    ELSE NoGuard

\* check_all_guards: redundancy first, then compatibility
check_all_guards(operation, current_type, filename, page_count) ==
    IF run_all_redundancy_guards(operation, current_type, filename, page_count) # NoGuard
    THEN run_all_redundancy_guards(operation, current_type, filename, page_count)
    ELSE check_compatibility(operation, current_type)

\* _check_file_type_guards(intents, file_names): (is_allowed, message).  Every
\* step is checked against file_names[0]; the first step with a guard result
\* decides.
_check_file_type_guards(intents, files) ==
    LET primary_file == files[1]
        file_type == get_file_type(primary_file)
        guard_result(i) == check_all_guards(intents[i], file_type, primary_file, 0)
        hits == {i \in 1..Len(intents) : guard_result(i) # NoGuard}
        first == CHOOSE i \in hits : \A j \in hits : i <= j
    IN IF files = <<>> \/ file_type = None \/ hits = {}
       THEN [is_allowed |-> TRUE, message |-> ""]
       ELSE IF guard_result(first).action = "skip"
       THEN [is_allowed |-> FALSE, message |-> ""]
       ELSE [is_allowed |-> FALSE, message |-> guard_result(first).message]

\* execute_operation_pipeline: the type of the file a step leaves behind
output_type(op) ==
    CASE op = "pdf_to_docx" -> "docx"
      [] op = "extract_text" -> "txt"
      [] op \in {"pdf_to_images", "split_to_files"} -> "zip"
      [] OTHER -> "pdf"

\* _optimize_operation_order: PipelineRegistry.find_pipeline matches a
\* pipeline whose operations equal the plan, so the order it returns is the
\* order of the plan
_optimize_operation_order(intents) == intents

\* the operations of execute_operation_pipeline that call require_pdf_name
PdfSteps == {"split", "delete", "compress", "compress_to_target", "pdf_to_docx",
             "rotate", "reorder", "watermark", "page_numbers", "extract_text",
             "pdf_to_images", "split_to_files", "ocr", "remove_blank_pages",
             "remove_duplicate_pages", "enhance_scan", "flatten_pdf"}

Raised(message) == [kind |-> "raised", message |-> message, current_file |-> None]

Ran(current_file) == [kind |-> "ran", message |-> None, current_file |-> current_file]

\* execute_operation_pipeline, one round of the loop: step idx of the plan
\* with current_file the type of the file the step before left behind
PipelineStep(intents, idx, current_file, uploaded_files) ==
    LET operation_type == intents[idx]
        input == IF idx = 1 /\ operation_type \notin {"merge", "images_to_pdf"}
                 THEN uploaded_files[1].ext
                 ELSE current_file
    IN
    IF idx = 1 /\ operation_type = "merge" /\ Len(uploaded_files) < 2
    THEN Raised("Merge requires at least 2 files")
    ELSE IF idx > 1 /\ operation_type = "merge"
    THEN Raised("Merge can only be the first step in a multi-step request")
    ELSE IF idx > 1 /\ operation_type = "images_to_pdf"
    THEN Raised("images_to_pdf can only be the first step in a multi-step request")
    ELSE IF input = "docx" /\ operation_type # "docx_to_pdf"
    THEN Raised("Cannot run operations after converting to DOCX (except DOCX->PDF)")
    ELSE IF input = "txt" THEN Raised("Cannot run operations after extracting text")
    ELSE IF input = "zip" THEN Raised("Cannot run operations after producing a ZIP output")
    ELSE IF operation_type \in {"merge", "images_to_pdf"} THEN Ran("pdf")
    ELSE IF operation_type \in PdfSteps
    THEN (IF input = "pdf" THEN Ran(output_type(operation_type))
          ELSE Raised("This step requires a PDF input file."))
    ELSE IF operation_type = "docx_to_pdf"
    THEN (IF input = "docx" THEN Ran("pdf")
          ELSE Raised("This step requires a DOCX input file."))
    ELSE Raised("Unknown operation type")

MaxPlanLen == 2

PlanOps == {"merge", "images_to_pdf", "compress", "enhance_scan", "rotate",
            "pdf_to_docx", "docx_to_pdf"}

\* the uploads of a request: one file or two of one kind
UploadedFiles ==
    {<<File(ext, marked)>> : ext \in {"pdf", "docx", "png"}, marked \in BOOLEAN}
        \cup {<<File(ext, marked), File(ext, FALSE)>> :
                 ext \in {"pdf", "docx", "png"}, marked \in BOOLEAN}

\* the plans handed to execute_operation_pipeline; a plan starts with
\* images_to_pdf only when the upload is images
CandidatePlans(uploaded_files) ==
    {plan \in SeqsUpTo(PlanOps, MaxPlanLen) :
        plan # <<>> /\ plan[1] = "images_to_pdf" => uploaded_files[1].ext \in image_types}

NoPipelineResult == [kind |-> None, message |-> None]

beside_pipeline ==
    <<rvars, cvars, svars, phvars, rtvars, upvars, vavars, jbvars, sfvars, odvars, nzvars, jqvars>>

\* execute_operation_pipeline(intents, uploaded_files) is called
PipelineCall ==
    /\ ex_pc = "idle"
    /\ \E uploaded_files \in UploadedFiles :
          \E plan \in CandidatePlans(uploaded_files) :
              /\ ex_files' = uploaded_files
              /\ ex_plan' = plan
              /\ ex_intents' = plan
    /\ ex_pc' = "guards"
    /\ UNCHANGED <<ex_idx, ex_current, ex_out, beside_pipeline>>

\* the head of execute_operation_pipeline: no plan, the guards, the order
PipelineGuards ==
    /\ ex_pc = "guards"
    /\ LET guard == _check_file_type_guards(ex_intents, ex_files) IN
       IF ex_intents = <<>>
       THEN /\ ex_out' = [kind |-> "raised", message |-> "No operations provided"]
            /\ ex_pc' = "returned"
            /\ UNCHANGED <<ex_intents, ex_idx>>
       ELSE IF ~guard.is_allowed /\ guard.message # ""
       THEN /\ ex_out' = [kind |-> "raised", message |-> guard.message]
            /\ ex_pc' = "returned"
            /\ UNCHANGED <<ex_intents, ex_idx>>
       ELSE IF ~guard.is_allowed
       THEN /\ ex_out' = [kind |-> "skipped", message |-> "Operation skipped (redundant)"]
            /\ ex_pc' = "returned"
            /\ UNCHANGED <<ex_intents, ex_idx>>
       ELSE /\ ex_intents' = _optimize_operation_order(ex_intents)
            /\ ex_idx' = 1
            /\ ex_pc' = "steps"
            /\ UNCHANGED ex_out
    /\ UNCHANGED <<ex_files, ex_plan, ex_current, beside_pipeline>>

\* one round of the loop over the steps
PipelineRound ==
    /\ ex_pc = "steps"
    /\ ex_idx <= Len(ex_intents)
    /\ LET round == PipelineStep(ex_intents, ex_idx, ex_current, ex_files) IN
       IF round.kind = "raised"
       THEN /\ ex_out' = [kind |-> "raised", message |-> round.message]
            /\ ex_pc' = "returned"
            /\ UNCHANGED <<ex_idx, ex_current>>
       ELSE /\ ex_current' = round.current_file
            /\ ex_idx' = ex_idx + 1
            /\ UNCHANGED <<ex_pc, ex_out>>
    /\ UNCHANGED <<ex_files, ex_plan, ex_intents, beside_pipeline>>

\* the loop is over: the output file and the messages are returned
PipelineReturn ==
    /\ ex_pc = "steps"
    /\ ex_idx > Len(ex_intents)
    /\ ex_out' = [kind |-> "output", message |-> None]
    /\ ex_pc' = "returned"
    /\ UNCHANGED <<ex_files, ex_plan, ex_intents, ex_idx, ex_current, beside_pipeline>>

\* the caller takes the result or the exception
PipelineDone ==
    /\ ex_pc = "returned"
    /\ ex_pc' = "idle"
    /\ ex_files' = <<>>
    /\ ex_plan' = <<>>
    /\ ex_intents' = <<>>
    /\ ex_idx' = 0
    /\ ex_current' = None
    /\ ex_out' = NoPipelineResult
    /\ UNCHANGED beside_pipeline

ExNext ==
    \/ PipelineCall
    \/ PipelineGuards
    \/ PipelineRound
    \/ PipelineReturn
    \/ PipelineDone

SpecPipeline == Init /\ [][ExNext]_vars

(***************************************************************************)
(* PART 9.  The pipeline validator and the conflict classifier             *)
(* (app/pattern_validation.py, app/error_handler.py)                       *)
(*                                                                         *)
(* A pipeline is the list of its operation names.  The messages stand for  *)
(* the texts without the operation names that the code appends to them.    *)
(***************************************************************************)
\* VALID_OPS_BY_TYPE.get(source_type, set())
VALID_OPS_BY_TYPE(source_type) ==
    CASE source_type = "pdf" ->
            {"merge", "split", "compress", "convert", "ocr", "clean", "enhance",
             "rotate", "reorder", "flatten", "watermark", "page-numbers"}
      [] source_type = "docx" -> {"convert", "compress", "watermark", "page-numbers"}
      [] source_type = "doc" -> {"convert", "compress", "watermark"}
      [] source_type \in {"jpg", "jpeg", "png", "img"} ->
            {"merge", "compress", "convert", "enhance", "rotate"}
      [] OTHER -> {}

REDUNDANT_CONVERSIONS ==
    {<<"jpg", "jpg">>, <<"jpeg", "jpeg">>, <<"png", "png">>, <<"jpg", "jpeg">>,
     <<"jpeg", "jpg">>, <<"pdf", "pdf">>, <<"docx", "docx">>, <<"doc", "doc">>,
     <<"img", "img">>}

CONFLICTING_OPS == {{"split", "merge"}}

\* ValidationResult
ValidationResult(status, is_valid, original_pipeline, adjusted_pipeline,
                 user_message, skip_reason) ==
    [status |-> status, is_valid |-> is_valid,
     original_pipeline |-> original_pipeline,
     adjusted_pipeline |-> adjusted_pipeline,
     user_message |-> user_message, skip_reason |-> skip_reason]

\* a check that has nothing to say returns None
NoValidation == ValidationResult(None, FALSE, <<>>, <<>>, None, None)

\* the operations of a pipeline with the repeated ones left out
Deduplicated(operations) ==
    LET first(i) == \A j \in 1..(i - 1) : operations[j] # operations[i]
        kept == {i \in 1..Len(operations) : first(i)}
        rank(i) == Cardinality({j \in kept : j <= i})
    IN [n \in 1..Cardinality(kept) |-> operations[CHOOSE i \in kept : rank(i) = n]]

\* PatternValidator._check_redundancy
_check_redundancy(operations, source_type, target_type) ==
    LET adjusted == SelectSeq(operations, LAMBDA op : op # "convert") IN
    IF /\ HasTok(operations, "convert")
       /\ target_type # None
       /\ <<source_type, target_type>> \in REDUNDANT_CONVERSIONS
    THEN IF adjusted = <<>>
         THEN ValidationResult("redundant", TRUE, operations, <<>>, None,
                               "File is already in that format")
         ELSE ValidationResult("valid", TRUE, operations, adjusted,
                               "Skipping conversion", None)
    ELSE IF Len(Deduplicated(operations)) < Len(operations)
    THEN ValidationResult("valid", TRUE, operations, Deduplicated(operations),
                          "Removed duplicate operations", None)
    ELSE NoValidation

\* PatternValidator._check_compatibility
_check_compatibility(operations, source_type) ==
    LET valid_ops == VALID_OPS_BY_TYPE(source_type)
        compatible == SelectSeq(operations, LAMBDA op : op \in valid_ops)
        incompatible == SelectSeq(operations, LAMBDA op : op \notin valid_ops)
    IN IF incompatible = <<>> THEN NoValidation
       ELSE IF compatible = <<>>
       THEN ValidationResult("incompatible", FALSE, operations, <<>>,
                             "Operations not supported", None)
       ELSE ValidationResult("valid", TRUE, operations, compatible,
                             "Skipping unsupported operations", None)

\* PatternValidator._check_conflicts
_check_conflicts(operations) ==
    IF \E conflict_set \in CONFLICTING_OPS :
           \A op \in conflict_set : HasTok(operations, op)
    THEN ValidationResult("incompatible", FALSE, operations, <<>>,
                          "Cannot perform both on the same file", None)
    ELSE NoValidation

\* PatternValidator.validate
validate(operations, source_type, target_type) ==
    IF operations = <<>>
    THEN ValidationResult("ambiguous", FALSE, operations, <<>>,
                          "No operations detected", None)
    ELSE IF _check_redundancy(operations, source_type, target_type) # NoValidation
    THEN _check_redundancy(operations, source_type, target_type)
    ELSE IF _check_compatibility(operations, source_type) # NoValidation
    THEN _check_compatibility(operations, source_type)
    ELSE IF _check_conflicts(operations) # NoValidation
    THEN _check_conflicts(operations)
    ELSE ValidationResult("valid", TRUE, operations, operations, None, None)

\* ErrorClassification; NoClassification stands for the return value None
NoClassification ==
    [error_type |-> None, action |-> None, can_recover |-> FALSE,
     recovery_action |-> None]

\* ErrorClassifier.classify_conflicting_operations: the operation named by
\* recovery_action is the one of merge and split that comes later in the list
classify_conflicting_operations(operations) ==
    IF HasTok(operations, "merge") /\ HasTok(operations, "split")
    THEN [error_type |-> "conflicting_ops", action |-> "auto_fix",
          can_recover |-> TRUE,
          recovery_action |->
              IF FirstIn(operations, {"merge"}) > FirstIn(operations, {"split"})
              THEN "merge" ELSE "split"]
    ELSE NoClassification

MaxPipelineLen == 2

VOperations == {"merge", "split", "compress", "convert", "ocr"}

SourceTypes == {"pdf", "docx", "jpg"}

TargetTypes == {None, "pdf", "jpg"}

beside_validator ==
    <<rvars, cvars, svars, phvars, rtvars, upvars, exvars, jbvars, sfvars, odvars, nzvars, jqvars>>

\* validate_pipeline(operations, source_file, target_format) is called, or
\* classify_conflicting_operations(operations)
ValidatorCall ==
    /\ va_pc = "idle"
    /\ \E operations \in SeqsUpTo(VOperations, MaxPipelineLen),
          source_type \in SourceTypes, target_type \in TargetTypes :
          /\ va_operations' = operations
          /\ va_source' = source_type
          /\ va_target' = target_type
    /\ va_pc' = "called"
    /\ UNCHANGED <<va_out, va_classification, beside_validator>>

\* PatternValidator.validate returns
Validate ==
    /\ va_pc = "called"
    /\ va_out' = validate(va_operations, va_source, va_target)
    /\ va_pc' = "validated"
    /\ UNCHANGED <<va_operations, va_source, va_target, va_classification,
                   beside_validator>>

\* ErrorClassifier.classify_conflicting_operations returns
ClassifyConflict ==
    /\ va_pc = "called"
    /\ va_classification' = classify_conflicting_operations(va_operations)
    /\ va_pc' = "classified"
    /\ UNCHANGED <<va_operations, va_source, va_target, va_out, beside_validator>>

\* the caller takes the result
ValidatorDone ==
    /\ va_pc \in {"validated", "classified"}
    /\ va_pc' = "idle"
    /\ va_operations' = <<>>
    /\ va_source' = None
    /\ va_target' = None
    /\ va_out' = NoValidation
    /\ va_classification' = NoClassification
    /\ UNCHANGED beside_validator

VaNext == ValidatorCall \/ Validate \/ ClassifyConflict \/ ValidatorDone

SpecValidator == Init /\ [][VaNext]_vars

(***************************************************************************)
(* PART 10.  The hard-coded guards of clarify_intent and the background    *)
(* job (app/clarification_layer.py, app/main.py, app/job_queue.py)         *)
(***************************************************************************)
IVocab == {"to", "pdf", "combine", "rotate", "compress"}

\* the prompts of a request with an image upload
IPrompts == SeqsUpTo(IVocab, MaxUploadPromptLen)

\* clarify_intent, the pipelines of an image upload that a prompt over IVocab
\* can ask for: images to PDF and then compress or rotate.  NoResult stands
\* for "clarify_intent goes on".
ImagePipelineResult(prompt, files) ==
    LET l == LowerSeq(Words(prompt))
        all_images == \A i \in 1..Len(files) :
                          files[i].ext \in {"png", "jpg", "jpeg", "gif", "bmp", "tiff", "webp"}
        wants_to_pdf == Adj(l, {"to", "as"}, {"pdf"}) \/ Adj(l, {"convert"}, {"pdf"})
        wants_merge == HasAny(l, MergeWords)
        wants_compress == HasAny(l, {"compress", "smaller", "shrink", "tiny"})
        wants_rotate == HasAny(l, {"rotate", "turn", "flip", "straighten"})
    IN
    IF files = <<>> \/ ~all_images THEN NoResult
    ELSE IF (wants_merge \/ wants_to_pdf) /\ wants_compress
    THEN ClarificationResult(
            <<ParsedIntent("images_to_pdf", <<>>),
              ParsedIntent("compress", <<_infer_compress_preset(l)>>)>>, None, NoOptions)
    ELSE IF (wants_merge \/ wants_to_pdf) /\ wants_rotate
    THEN ClarificationResult(
            <<ParsedIntent("images_to_pdf", <<>>), ParsedIntent("rotate", <<"90">>)>>,
            None, NoOptions)
    ELSE NoResult

\* the uploads of a job: one image, two images, or one PDF
JobUploads == {<<"a.png">>, <<"a.png", "b.png">>, file_names}

\* what the guards read from the name of an uploaded file
FileOf(name) == File(IF endswith_image(name) THEN "png" ELSE "pdf", FALSE)

Q_ALREADY_IMAGE == "Already an image"

Q_ALREADY_PDF == "Already a PDF"

\* the hard-coded guards without the guard "Image -> to image"
HardcodedGuards_no_image_guard(prompt, files) ==
    LET l == LowerSeq(Words(prompt))
        is_image_file == endswith_image(files[1])
        is_pdf_file == endswith_pdf(files[1])
        all_images == \A i \in 1..Len(files) : endswith_image(files[i])
        wants_to_image == Adj(l, {"to"}, {"img", "image", "images", "png", "jpg", "jpeg"})
                            \/ Adj(l, {"as"}, {"png", "jpg", "jpeg"})
        wants_to_pdf == Adj(l, {"to", "as"}, {"pdf"}) \/ Adj(l, {"convert"}, {"pdf"})
        wants_compress == HasAny(l, {"compress", "smaller", "shrink", "tiny"})
        num_operations == (IF wants_compress THEN 1 ELSE 0) + (IF wants_to_image THEN 1 ELSE 0)
        images == [i \in 1..Len(files) |-> FileOf(files[i])]
    IN
    IF files = <<>> THEN NoResult
    ELSE IF ImagePipelineResult(prompt, images) # NoResult
    THEN ImagePipelineResult(prompt, images)
    ELSE IF is_pdf_file /\ wants_to_pdf /\ num_operations <= 1
    THEN ClarificationResult(NoIntent, Q_ALREADY_PDF, NoOptions)
    ELSE IF wants_to_pdf /\ all_images
    THEN ClarificationResult(<<ParsedIntent("images_to_pdf", <<>>)>>, None, NoOptions)
    ELSE IF wants_compress /\ is_image_file
    THEN ClarificationResult(
            <<ParsedIntent("images_to_pdf", <<>>),
              ParsedIntent("compress", <<_infer_compress_preset(l)>>)>>, None, NoOptions)
    ELSE NoResult

\* clarify_intent, the block "HARDCODED REDUNDANCY & COMPATIBILITY GUARDS" for
\* the flags that a prompt over GVocab can raise.  NoResult stands for
\* "clarify_intent goes on after END HARDCODED GUARDS".
HardcodedGuards(prompt, files) ==
    LET l == LowerSeq(Words(prompt))
        is_image_file == endswith_image(files[1])
        is_pdf_file == endswith_pdf(files[1])
        all_images == \A i \in 1..Len(files) : endswith_image(files[i])
        wants_to_image == Adj(l, {"to"}, {"img", "image", "images", "png", "jpg", "jpeg"})
                            \/ Adj(l, {"as"}, {"png", "jpg", "jpeg"})
        wants_to_pdf == Adj(l, {"to", "as"}, {"pdf"}) \/ Adj(l, {"convert"}, {"pdf"})
        wants_compress == HasAny(l, {"compress", "smaller", "shrink", "tiny"})
        num_operations == (IF wants_compress THEN 1 ELSE 0) + (IF wants_to_image THEN 1 ELSE 0)
        images == [i \in 1..Len(files) |-> FileOf(files[i])]
    IN
    IF files = <<>> THEN NoResult
    ELSE IF ImagePipelineResult(prompt, images) # NoResult
    THEN ImagePipelineResult(prompt, images)
    ELSE IF is_image_file /\ wants_to_image /\ ~wants_to_pdf /\ ~wants_compress
    THEN ClarificationResult(NoIntent, Q_ALREADY_IMAGE, NoOptions)
    ELSE IF is_pdf_file /\ wants_to_pdf /\ num_operations <= 1
    THEN ClarificationResult(NoIntent, Q_ALREADY_PDF, NoOptions)
    ELSE IF wants_to_pdf /\ all_images
    THEN ClarificationResult(<<ParsedIntent("images_to_pdf", <<>>)>>, None, NoOptions)
    ELSE IF wants_compress /\ is_image_file
    THEN ClarificationResult(
            <<ParsedIntent("images_to_pdf", <<>>),
              ParsedIntent("compress", <<_infer_compress_preset(l)>>)>>, None, NoOptions)
    ELSE NoResult

\* clarify_intent(user_prompt, file_names) for the uploads of JobUploads: the
\* hard-coded guards, and after them the rest of clarify_intent.  The field
\* stage tells which of the two returned; every call of the LLM parser is
\* made by the second.
clarify_upload(prompt, llm, on_disk, files) ==
    IF HardcodedGuards(prompt, files) # NoResult
    THEN [stage |-> "guards", result |-> HardcodedGuards(prompt, files)]
    ELSE [stage |-> "parsing", result |-> clarify_intent(prompt, TRUE, llm, on_disk, files)]

GVocab == {"convert", "to", "image", "pdf", "compress"}

GPrompts == SeqsUpTo(GVocab, MaxUploadPromptLen)

\* JobInfo, the fields that tell how the job ended
JobInfo(status, result_status, result_message) ==
    [status |-> status, result_status |-> result_status,
     result_message |-> result_message]

\* JobQueue.complete_job
complete_job(job, status, message) ==
    JobInfo(IF status = "success" THEN "completed" ELSE "failed", status, message)

\* JobQueue.fail_job
fail_job(job, error_message) == complete_job(job, "error", error_message)

\* the message of the AttributeError that job_queue.set_max_eta raises:
\* JobQueue has no such method
E_SET_MAX_ETA == "Unexpected error: 'JobQueue' object has no attribute 'set_max_eta'"

beside_job == <<rvars, cvars, svars, phvars, rtvars, upvars, exvars, vavars, sfvars, odvars, nzvars, jqvars>>

\* JobQueue.create_job: a job without a session is created for an upload and
\* a prompt, and its thread is started
QueueCreate ==
    /\ jb_pc = "idle"
    /\ \E files \in JobUploads, p \in GPrompts :
          /\ jb_files' = files
          /\ jb_prompt' = p
    /\ jb_job' = JobInfo("pending", None, None)
    /\ jb_pc' = "pending"
    /\ UNCHANGED <<jb_out, jb_stage, beside_job>>

\* JobQueue.cancel_job, while the job waits for a slot
QueueCancel ==
    /\ jb_pc = "pending"
    /\ jb_job' = [jb_job EXCEPT !.status = "cancelled"]
    /\ jb_pc' = "done"
    /\ UNCHANGED <<jb_files, jb_prompt, jb_out, jb_stage, beside_job>>

\* JobQueue._process_job: the job gets its slot and the processor is called
QueueStart ==
    /\ jb_pc = "pending"
    /\ jb_job' = [jb_job EXCEPT !.status = "processing"]
    /\ jb_pc' = "processing"
    /\ UNCHANGED <<jb_files, jb_prompt, jb_out, jb_stage, beside_job>>

\* process_job_background, Stage 1: clarify_intent(prompt_to_parse, file_names).
\* Without a session there is no locked prompt, no "repeat" shortcut and no
\* Stage 2; no prompt over GVocab is a "compress by N%".
QueueClarify ==
    /\ jb_pc = "processing"
    /\ \E llm \in LlmAnswers, on_disk \in BOOLEAN :
          With(clarify_upload(jb_prompt, llm, on_disk, jb_files), LAMBDA returned :
              /\ jb_out' = returned.result
              /\ jb_stage' = returned.stage)
    /\ jb_pc' = "clarified"
    /\ UNCHANGED <<jb_files, jb_prompt, jb_job, beside_job>>

\* process_job_background, the rest: a result without an intent completes
\* the job with status "error" and the clarification; with an intent the call
\* job_queue.set_max_eta raises AttributeError, which the outer handler turns
\* into fail_job
QueueComplete ==
    /\ jb_pc = "clarified"
    /\ jb_job' = IF jb_out.intent = NoIntent
                  THEN complete_job(jb_job, "error", jb_out.clarification)
                  ELSE fail_job(jb_job, E_SET_MAX_ETA)
    /\ jb_pc' = "done"
    /\ UNCHANGED <<jb_files, jb_prompt, jb_out, jb_stage, beside_job>>

\* the job is over: cleanup_old_jobs drops it
QueueDone ==
    /\ jb_pc = "done"
    /\ jb_pc' = "idle"
    /\ jb_files' = <<>>
    /\ jb_prompt' = <<>>
    /\ jb_out' = NoResult
    /\ jb_stage' = None
    /\ jb_job' = JobInfo("pending", None, None)
    /\ UNCHANGED beside_job

JbNext == QueueCreate \/ QueueCancel \/ QueueStart \/ QueueClarify \/ QueueComplete \/ QueueDone

SpecJobQueue == Init /\ [][JbNext]_vars

(***************************************************************************)
(* PART 11.  Slot filling (app/main.py, process_job_background)            *)
(*                                                                         *)
(* A session holds a pending question with the instruction it was asked    *)
(* about; the next message of the user is bound to the open slot and the   *)
(* prompt built from it goes to clarify_intent.                            *)
(***************************************************************************)
\* _options_for_common_questions, for a question about the angle
ROTATE_OPTIONS == << <<"rotate", "90", "degrees">>, <<"rotate", "180", "degrees">>,
                     <<"rotate", "270", "degrees">> >>

SlotQuestions == {Q_ROTATE_DEGREES, Q_LLM}

SlotBases == {<<"rotate">>, <<"rotate", "it">>, <<"turn", "it">>}

SlotReplies == {<<"90">>, <<"180">>, <<"270">>, <<"90", "degrees">>, <<"left">>,
                <<"right">>, <<"flip">>, <<"rotate", "270", "degrees">>}

beside_slot ==
    <<rvars, cvars, svars, phvars, rtvars, upvars, exvars, vavars, jbvars, odvars, nzvars, jqvars>>

\* an earlier request ended with a clarification: the session keeps the
\* question, its options and the instruction it was asked about
SlotPending ==
    /\ sf_pc = "idle"
    /\ \E question \in SlotQuestions, base \in SlotBases :
          /\ sf_question' = question
          /\ sf_base' = base
          /\ sf_options' = IF question = Q_ROTATE_DEGREES THEN ROTATE_OPTIONS ELSE NoOptions
    /\ sf_pc' = "pending"
    /\ UNCHANGED <<sf_reply, sf_prompt, sf_out, beside_slot>>

\* process_job_background, slot filling: a reply that is one of the options
\* is parsed as it is, a short reply is bound to the open slot
SlotFill ==
    /\ sf_pc = "pending"
    /\ \E reply \in SlotReplies :
          /\ sf_reply' = reply
          /\ sf_prompt' =
                IF \E i \in 1..Len(sf_options) : _normalize_ws(sf_options[i]) = _normalize_ws(reply)
                THEN reply
                ELSE IF Len(_normalize_ws(reply)) <= 6
                THEN _build_prompt_from_reply(sf_base, sf_question, reply)
                ELSE reply
    /\ sf_pc' = "filled"
    /\ UNCHANGED <<sf_question, sf_base, sf_options, sf_out, beside_slot>>

\* process_job_background, Stage 1: clarify_intent(prompt_to_parse, file_names)
SlotClarify ==
    /\ sf_pc = "filled"
    /\ \E llm \in LlmAnswers, on_disk \in BOOLEAN :
          sf_out' = clarify_intent(sf_prompt, TRUE, llm, on_disk, file_names)
    /\ sf_pc' = "clarified"
    /\ UNCHANGED <<sf_question, sf_base, sf_options, sf_reply, sf_prompt, beside_slot>>

\* the request ends; with a plan _clear_pending drops the question
SlotDone ==
    /\ sf_pc = "clarified"
    /\ sf_pc' = "idle"
    /\ sf_question' = None
    /\ sf_base' = <<>>
    /\ sf_options' = NoOptions
    /\ sf_reply' = <<>>
    /\ sf_prompt' = <<>>
    /\ sf_out' = NoResult
    /\ UNCHANGED beside_slot

SfNext == SlotPending \/ SlotFill \/ SlotClarify \/ SlotDone

SpecSlot == Init /\ [][SfNext]_vars

(***************************************************************************)
(* PART 12.  The ordering of a request with several operations           *)
(* (app/clarification_layer.py, clarify_intent 881-1276 and 3224-3250)     *)
(*                                                                         *)
(* A request names its operations in clauses joined by "and", with no      *)
(* sequencing word.  clarify_intent first tries its hard-coded pipelines,  *)
(* then _auto_order_multi_op_no_order sorts the clauses, and               *)
(* _maybe_order_ambiguity_options is asked when the prompt still has no    *)
(* sequencing word.                                                        *)
(***************************************************************************)
MaxClauses == 2

\* the clauses of the requests, one or two per operation family
OClauses == {<<"merge">>, <<"ocr">>, <<"delete", "pages", "1-3">>,
             <<"split", "pages", "1-3">>, <<"reorder">>, <<"rotate">>,
             <<"watermark", "DRAFT">>, <<"page", "numbers">>, <<"compress">>,
             <<"docx">>, <<"png">>, <<"txt">>, <<"split", "to", "files">>,
             <<"separate", "pdfs">>, <<"images", "to", "pdf">>}

\* " and ".join(parts)
RECURSIVE JoinAnd(_)
JoinAnd(parts) ==
    IF parts = <<>> THEN <<>>
    ELSE IF Len(parts) = 1 THEN parts[1]
    ELSE parts[1] \o <<"and">> \o JoinAnd(Tail(parts))

\* k different clauses, in every order
ClauseLists(k) ==
    {s \in [1..k -> OClauses] : \A i, j \in 1..k : i # j => s[i] # s[j]}

\* prompts with two families in one clause and no "and"
OShortPrompts == {<<"smaller", "rotate">>, <<"split", "smaller">>, <<"readable", "smaller">>}

OPrompts == {JoinAnd(s) : s \in UNION {ClauseLists(k) : k \in 2..MaxClauses}}
                \cup OShortPrompts

\* two operations, in both orders
TwoClausePrompts == {JoinAnd(s) : s \in ClauseLists(2)}

OUploads == {file_names, <<"a.pdf", "b.pdf">>}

\* clarify_intent 3224-3250: the orderer sorts the clauses ("ordered"), or
\* one of the two functions ends the request with a result ("returned"), or
\* the prompt goes on as it is ("none")
OrderingResult(prompt, llm, on_disk, files) ==
    With(_auto_order_multi_op_no_order(prompt, files), LAMBDA auto :
    With(_maybe_order_ambiguity_options(prompt, llm, on_disk, files), LAMBDA order_result :
    IF auto.kind = "raise"
    THEN [kind |-> "returned", clauses |-> <<>>,
          result |-> ClarificationResult(NoIntent, Q_OUTPUTS, auto.options)]
    ELSE IF auto.kind = "ordered"
    THEN [kind |-> "ordered", clauses |-> auto.clauses, result |-> NoResult]
    ELSE IF ~_has_explicit_order_words(prompt) /\ order_result # NoResult
    THEN [kind |-> "returned", clauses |-> <<>>, result |-> order_result]
    ELSE [kind |-> "none", clauses |-> <<>>, result |-> NoResult]))

\* clarify_intent 881-1365, the two-step pipelines of a PDF upload, for the
\* flags that two clauses of OClauses can raise.  NoResult stands for
\* "clarify_intent goes on".
PdfPipelineResult(prompt, files) ==
    LET w == Words(prompt)
        l == LowerSeq(w)
        is_pdf_file == endswith_pdf(files[1])
        all_pdfs == \A i \in 1..Len(files) : endswith_pdf(files[i])
        several == all_pdfs /\ Len(files) >= 2
        wants_split == HasTok(l, "split") \/ Adj(l, {"extract", "keep"}, {"page", "pages"})
        wants_merge == HasAny(l, MergeWords)
        wants_ocr == HasTok(l, "ocr")
        wants_reorder == HasAny(l, {"reorder", "reverse", "swap"})
        wants_compress == HasAny(l, {"compress", "smaller", "shrink", "tiny"})
        wants_rotate == HasAny(l, {"rotate", "turn", "flip", "straighten"})
        wants_watermark == HasTok(l, "watermark")
        wants_page_numbers == \/ Adj(l, {"page"}, {"number", "numbers"})
                              \/ Adj(l, {"number"}, {"page", "pages"})
                              \/ Adj(l, {"add"}, {"number", "numbers"})
        degrees == IF HasAny(l, {"left", "counter", "anti"}) THEN 270
                   ELSE IF HasTok(l, "180") THEN 180
                   ELSE 90
        text == WatermarkText(prompt)
        pages == _parse_page_ranges(w)
        merge == ParsedIntent("merge", <<>>)
        ocr == ParsedIntent("ocr", <<>>)
        rotate == ParsedIntent("rotate", <<degrees>>)
        compress == ParsedIntent("compress", <<_infer_compress_preset(w)>>)
        watermark == ParsedIntent("watermark", <<text[1]>>)
        page_numbers == ParsedIntent("page_numbers", <<>>)
        split == ParsedIntent("split", <<>>)
        reorder == ParsedIntent("reorder", <<>>)
        Pipeline(first, second) == ClarificationResult(<<first, second>>, None, NoOptions)
    IN
    IF files = <<>> \/ ~(is_pdf_file \/ all_pdfs) THEN NoResult
    ELSE IF wants_merge /\ wants_compress /\ several THEN Pipeline(merge, compress)
    ELSE IF wants_merge /\ wants_watermark /\ several /\ text # <<>>
    THEN Pipeline(merge, watermark)
    ELSE IF wants_ocr /\ wants_compress /\ is_pdf_file THEN Pipeline(ocr, compress)
    ELSE IF wants_rotate /\ wants_compress /\ is_pdf_file THEN Pipeline(rotate, compress)
    ELSE IF wants_watermark /\ wants_compress /\ is_pdf_file /\ text # <<>>
    THEN Pipeline(watermark, compress)
    ELSE IF wants_page_numbers /\ wants_compress /\ is_pdf_file
    THEN Pipeline(page_numbers, compress)
    ELSE IF wants_split /\ wants_compress /\ is_pdf_file /\ pages THEN Pipeline(split, compress)
    ELSE IF wants_watermark /\ wants_page_numbers /\ is_pdf_file /\ text # <<>>
    THEN Pipeline(watermark, page_numbers)
    ELSE IF wants_rotate /\ wants_split /\ is_pdf_file /\ pages THEN Pipeline(rotate, split)
    ELSE IF wants_merge /\ wants_ocr /\ several THEN Pipeline(merge, ocr)
    ELSE IF wants_merge /\ wants_page_numbers /\ several THEN Pipeline(merge, page_numbers)
    ELSE IF wants_merge /\ wants_rotate /\ several THEN Pipeline(merge, rotate)
    ELSE IF wants_ocr /\ wants_page_numbers /\ is_pdf_file THEN Pipeline(ocr, page_numbers)
    ELSE IF wants_ocr /\ wants_rotate /\ is_pdf_file THEN Pipeline(ocr, rotate)
    ELSE IF wants_rotate /\ wants_reorder /\ is_pdf_file THEN Pipeline(rotate, reorder)
    ELSE NoResult

\* clarify_intent(user_prompt, file_names) for a prompt of two clauses: the
\* hard-coded pipelines, the other hard-coded guards, the rest
clarify_two_clauses(prompt, llm, on_disk, files) ==
    IF PdfPipelineResult(prompt, files) # NoResult
    THEN PdfPipelineResult(prompt, files)
    ELSE IF HardcodedGuards(prompt, files) # NoResult
    THEN HardcodedGuards(prompt, files)
    ELSE clarify_intent(prompt, TRUE, llm, on_disk, files)

beside_orderer ==
    <<rvars, cvars, svars, phvars, rtvars, upvars, exvars, vavars, jbvars, sfvars, nzvars, jqvars>>

\* a request arrives: its text, its uploads, the question the session holds,
\* and what the LLM parser would answer during this request
OrdererCall ==
    /\ od_pc = "idle"
    /\ \E prompt \in OPrompts, files \in OUploads, llm \in LlmAnswers,
          question \in {None, Q_ORDER} :
          /\ od_prompt' = prompt
          /\ od_files' = files
          /\ od_llm' = llm
          /\ od_last_question' = question
    /\ od_pc' = "called"
    /\ UNCHANGED <<od_out, od_prev, od_plan, beside_orderer>>

\* _maybe_order_ambiguity_options(user_prompt, file_names) applied to a request
\* as the function stands (633), with what the LLM parser would answer
OrderAmbiguityCall ==
    /\ od_pc = "idle"
    /\ \E prompt \in OPrompts, files \in OUploads, llm \in LlmAnswers :
          /\ od_prompt' = prompt
          /\ od_files' = files
          /\ od_llm' = llm
    /\ od_pc' = "asked"
    /\ UNCHANGED <<od_last_question, od_out, od_prev, od_plan, beside_orderer>>

\* _maybe_order_ambiguity_options 633-778: None, an inferred plan or a question
OrderAmbiguityReturn ==
    /\ od_pc = "asked"
    /\ \E on_disk \in BOOLEAN :
          od_out' = With(_maybe_order_ambiguity_options(od_prompt, od_llm, on_disk, od_files),
                         LAMBDA order_result :
                         [kind |-> IF order_result = NoResult THEN "none" ELSE "returned",
                          clauses |-> <<>>, result |-> order_result])
    /\ od_pc' = "answered"
    /\ UNCHANGED <<od_prompt, od_files, od_llm, od_last_question, od_prev, od_plan,
                   beside_orderer>>

\* clarify_intent 3224-3250
OrdererReturn ==
    /\ od_pc = "called"
    /\ \E on_disk \in BOOLEAN :
          od_out' = OrderingResult(od_prompt, od_llm, on_disk, od_files)
    /\ od_pc' = "returned"
    /\ UNCHANGED <<od_prompt, od_files, od_llm, od_last_question, od_prev, od_plan,
                   beside_orderer>>

\* the same text with the same uploads is sent again: the session may hold
\* another question by then and the LLM parser may answer differently
OrdererRepeat ==
    /\ od_pc \in {"returned", "answered"}
    /\ od_prev = NoOrdering
    /\ od_out # NoOrdering
    /\ \E llm \in LlmAnswers, question \in {None, Q_ORDER} :
          /\ od_llm' = llm
          /\ od_last_question' = question
    /\ od_prev' = od_out
    /\ od_pc' = IF od_pc = "returned" THEN "called" ELSE "asked"
    /\ UNCHANGED <<od_prompt, od_files, od_out, od_plan, beside_orderer>>

\* clarify_intent for a request that names two operations
PlanRequest ==
    /\ od_pc = "idle"
    /\ \E prompt \in TwoClausePrompts, files \in OUploads, llm \in LlmAnswers,
          on_disk \in BOOLEAN :
          /\ od_prompt' = prompt
          /\ od_files' = files
          /\ od_llm' = llm
          /\ od_plan' = clarify_two_clauses(prompt, llm, on_disk, files)
    /\ od_pc' = "planned"
    /\ UNCHANGED <<od_last_question, od_out, od_prev, beside_orderer>>

OrdererDone ==
    /\ od_pc \in {"returned", "answered", "planned"}
    /\ od_pc' = "idle"
    /\ od_prompt' = <<>>
    /\ od_files' = <<>>
    /\ od_llm' = None
    /\ od_last_question' = None
    /\ od_out' = NoOrdering
    /\ od_prev' = NoOrdering
    /\ od_plan' = NoResult
    /\ UNCHANGED beside_orderer

OdNext ==
    \/ OrdererCall \/ OrdererReturn \/ OrderAmbiguityCall \/ OrderAmbiguityReturn
    \/ OrdererRepeat \/ PlanRequest \/ OrdererDone

SpecOrderer == Init /\ [][OdNext]_vars

(***************************************************************************)
(* PART 13.  The normalizers (app/one_flow_resolver.py,                    *)
(* app/pattern_matching.py, app/ai_parser.py)                              *)
(*                                                                         *)
(* A text is the sequence of its words, separated by single blanks.  The   *)
(* tables are those of the source; entries that no word of NVocab can      *)
(* match change nothing here.                                              *)
(***************************************************************************)
MaxNormLen == 3

NVocab == {"please", "and", "adn", "Compres", "compress", "docx", "smaller", "png", "->"}

NTexts == SeqsUpTo(NVocab, MaxNormLen)

\* str.lower() on the words of NVocab
lower(t) == [i \in 1..Len(t) |-> IF t[i] = "Compres" THEN "compres" ELSE t[i]]

\* re.sub(r"^prefix\s+", "", text).strip(): the prefix goes when words follow it
StripPrefix(t, prefix) ==
    IF Len(t) > Len(prefix) /\ SubSeq(t, 1, Len(prefix)) = prefix
    THEN SubSeq(t, Len(prefix) + 1, Len(t))
    ELSE t

\* one_flow_resolver.PREFIX_PATTERNS, in list order (r"^\d+\s+to\s+\d+\s+"
\* needs digits)
PREFIX_PATTERNS ==
    << <<"and">>, <<"pls">>, <<"plz">>, <<"please">>, <<"do", "it">>,
       <<"make", "small">>, <<"fix", "this">>, <<"to", "doc">>, <<"to", "img">>,
       <<"then">>, <<"now">>, <<"just">>, <<"can", "you">>,
       <<"i", "want", "to">>, <<"i", "need", "to">> >>

\* the loop "for pattern in PREFIX_PATTERNS": every pattern is tried once, in order
RECURSIVE StripPrefixes(_, _)
StripPrefixes(t, i) ==
    IF i > Len(PREFIX_PATTERNS) THEN t
    ELSE StripPrefixes(StripPrefix(t, PREFIX_PATTERNS[i]), i + 1)

\* typo_fixes of LocalNormalizer.normalize, word by word
typo_fixes(w) ==
    CASE w \in {"compres", "comprs"} -> "compress"
      [] w \in {"mrge", "merg"} -> "merge"
      [] w \in {"splt", "spill", "spilt"} -> "split"
      [] w = "convrt" -> "convert"
      [] w \in {"rotat", "rotae"} -> "rotate"
      [] w = "adn" -> "and"
      [] w \in {"thn", "thne"} -> "then"
      [] w \in {"dog", "dox"} -> "docx"
      [] w = "pfd" -> "pdf"
      [] w = "imag" -> "image"
      [] OTHER -> w

\* PIPELINE_ARROW / ARROW_PATTERN .sub(" -> ", text) with the arrow sign
ArrowWords == {"->", ">", "→"}
NormalizeArrows(t) == [i \in 1..Len(t) |-> IF t[i] \in ArrowWords THEN "→" ELSE t[i]]

\* LocalNormalizer.normalize
LocalNormalizer_normalize(text) ==
    With(StripPrefixes(lower(text), 1), LAMBDA result :
        NormalizeArrows([i \in 1..Len(result) |-> typo_fixes(result[i])]))

\* pattern_matching.NOISE_PATTERN: the alternatives of the one anchored group
NOISE_PATTERN ==
    << <<"and">>, <<"pls">>, <<"plz">>, <<"please">>, <<"do", "it">>, <<"then">>,
       <<"now">>, <<"just">>, <<"can", "you">>, <<"i", "want", "to">>,
       <<"i", "need", "to">>, <<"help", "me">>, <<"could", "you">>, <<"would", "you">> >>

\* NOISE_PATTERN.sub("", result): the first alternative that matches at the
\* start of the text is removed, once
StripNoise(t) ==
    IF \E i \in 1..Len(NOISE_PATTERN) : StripPrefix(t, NOISE_PATTERN[i]) # t
    THEN StripPrefix(t, NOISE_PATTERN[CHOOSE i \in 1..Len(NOISE_PATTERN) :
                            /\ StripPrefix(t, NOISE_PATTERN[i]) # t
                            /\ \A j \in 1..(i - 1) : StripPrefix(t, NOISE_PATTERN[j]) = t])
    ELSE t

\* PatternMatcher._normalize
PatternMatcher_normalize(text) == NormalizeArrows(StripNoise(lower(text)))

\* re.sub(r"\bword\b", replacement, p): every word of the set becomes the
\* words of the replacement
RECURSIVE Substitute(_, _, _)
Substitute(t, words, replacement) ==
    IF t = <<>> THEN <<>>
    ELSE (IF Head(t) \in words THEN replacement ELSE <<Head(t)>>)
         \o Substitute(Tail(t), words, replacement)

\* typo_map of normalize_human_input, the whole-word entries
typo_map(w) ==
    CASE w \in {"rotet", "roate", "rotae"} -> "rotate"
      [] w = "degres" -> "degrees"
      [] w = "splti" -> "split"
      [] w \in {"compres", "comress"} -> "compress"
      [] w = "mergee" -> "merge"
      [] w \in {"wattermark", "watermak"} -> "watermark"
      [] w = "orc" -> "ocr"
      [] w \in {"exract", "extrat"} -> "extract"
      [] OTHER -> w

\* shorthand_map of normalize_human_input, in dictionary order, with the two
\* guards that skip an expansion: "export" / "image" in the text for png and
\* jpg, "extract" and "text" in the text for txt
Shorthand(t) ==
    With(Substitute(t, {"rot"}, <<"rotate">>), LAMBDA t1 :
    With(Substitute(t1, {"zip"}, <<"compress", "as", "small", "as", "possible">>), LAMBDA t2 :
    With(IF HasTok(t2, "extract") /\ HasTok(t2, "text") THEN t2
         ELSE Substitute(t2, {"txt"}, <<"extract", "text">>), LAMBDA t3 :
    With(IF HasAny(t3, {"export", "image", "images"}) THEN t3
         ELSE Substitute(t3, {"png"}, <<"export", "as", "png", "images">>), LAMBDA t4 :
    With(IF HasAny(t4, {"export", "image", "images"}) THEN t4
         ELSE Substitute(t4, {"jpg"}, <<"export", "as", "jpg", "images">>), LAMBDA t5 :
    With(Substitute(t5, {"doc", "docx"}, <<"convert", "to", "docx">>), LAMBDA t6 :
    With(Substitute(t6, {"word"}, <<"convert", "to", "word">>), LAMBDA t7 :
    With(Substitute(t7, {"ppt"}, <<"convert", "to", "ppt">>), LAMBDA t8 :
    With(Substitute(t8, {"xls", "xlsx"}, <<"convert", "to", "excel">>), LAMBDA t9 :
         Substitute(t9, {"html"}, <<"convert", "to", "html">>))))))))))

\* rotate_aliases of normalize_human_input, in dictionary order
RotateAliases(t) ==
    With(Substitute(t, {"left"}, <<"rotate", "270", "degrees", "(counter-clockwise)">>), LAMBDA t1 :
    With(Substitute(t1, {"right"}, <<"rotate", "90", "degrees", "(clockwise)">>), LAMBDA t2 :
    With(Substitute(t2, {"flip"}, <<"rotate", "180", "degrees">>), LAMBDA t3 :
         Substitute(t3, {"turn"}, <<"rotate">>))))

\* compression_map of normalize_human_input, in dictionary order
CompressionShortcuts(t) ==
    With(Substitute(t, {"email"}, <<"compress", "to", "email-safe", "size", "(10MB", "max)">>), LAMBDA t1 :
    With(Substitute(t1, {"whatsapp"}, <<"compress", "very", "aggressively", "for", "whatsapp">>), LAMBDA t2 :
    With(Substitute(t2, {"smallest"}, <<"compress", "to", "smallest", "possible", "size">>), LAMBDA t3 :
    With(Substitute(t3, {"tiny"}, <<"compress", "as", "small", "as", "possible">>), LAMBDA t4 :
    With(Substitute(t4, {"smaller"}, <<"make", "file", "smaller">>), LAMBDA t5 :
         Substitute(t5, {"reduced"}, <<"reduce", "file", "size">>))))))

\* ai_parser.normalize_human_input(user_prompt) with the default last_question
\* "": the three numeric rules need a question and do not apply
normalize_human_input(user_prompt) ==
    With(lower(user_prompt), LAMBDA p :
        CompressionShortcuts(RotateAliases(Shorthand([i \in 1..Len(p) |-> typo_map(p[i])]))))

Normalizers == {"LocalNormalizer.normalize", "PatternMatcher._normalize", "normalize_human_input"}

Normalize(fn, text) ==
    CASE fn = "LocalNormalizer.normalize" -> LocalNormalizer_normalize(text)
      [] fn = "PatternMatcher._normalize" -> PatternMatcher_normalize(text)
      [] OTHER -> normalize_human_input(text)

beside_normalizer ==
    <<rvars, cvars, svars, phvars, rtvars, upvars, exvars, vavars, jbvars, sfvars, odvars, jqvars>>

\* a text is normalized
NormalizeCall ==
    /\ nz_pc = "idle"
    /\ \E fn \in Normalizers, text \in NTexts :
          /\ nz_fn' = fn
          /\ nz_text' = text
          /\ nz_once' = Normalize(fn, text)
    /\ nz_pc' = "normalized"
    /\ UNCHANGED <<nz_twice, beside_normalizer>>

\* the normalized text is normalized again by the same function
NormalizeAgain ==
    /\ nz_pc = "normalized"
    /\ nz_twice' = Normalize(nz_fn, nz_once)
    /\ nz_pc' = "renormalized"
    /\ UNCHANGED <<nz_fn, nz_text, nz_once, beside_normalizer>>

NormalizeDone ==
    /\ nz_pc = "renormalized"
    /\ nz_pc' = "idle"
    /\ nz_fn' = None
    /\ nz_text' = <<>>
    /\ nz_once' = <<>>
    /\ nz_twice' = <<>>
    /\ UNCHANGED beside_normalizer

NzNext == NormalizeCall \/ NormalizeAgain \/ NormalizeDone

SpecNormalizer == Init /\ [][NzNext]_vars

(***************************************************************************)
(* PART 14.  The job queue and its threads (app/job_queue.py)              *)
(*                                                                         *)
(* create_job stores a JobInfo and starts one thread per job; the thread   *)
(* waits for a slot, runs the processor and releases the slot.  Every      *)
(* `with self._lock` block is one step.  The processor is the callable     *)
(* given to set_processor: during its call for a job it reports progress   *)
(* and results for that job through the queue, and it returns or raises.   *)
(* A JobInfo lives on while a thread refers to it, also after              *)
(* cleanup_old_jobs has taken it out of self._jobs.                        *)
(***************************************************************************)
FinalStatuses == {"completed", "failed", "cancelled"}

\* _process_job: `self._processing_count < self._max_concurrent` with the
\* comparison `<=`
slot_is_free_at_capacity(processing_count) == processing_count <= max_concurrent

\* _process_job: `self._processing_count < self._max_concurrent`
slot_is_free(processing_count) == processing_count < max_concurrent

\* cancel_job: the test of the status, with PROCESSING accepted too
can_cancel_while_processing(job) == job.status \in {"pending", "uploading", "processing"}

\* cancel_job: `job.status in (JobStatus.PENDING, JobStatus.UPLOADING)`
can_cancel(job) == job.status \in {"pending", "uploading"}

\* update_progress: the progress of a job that is PROCESSING is set, clamped
\* to 0..100
update_progress(job, old, progress) ==
    IF job.status = "processing"
    THEN (IF progress > 100 THEN 100 ELSE IF progress < 0 THEN 0 ELSE progress)
    ELSE old

\* the except block of _process_job
processing_failed(job) ==
    [job EXCEPT !.status = "failed", !.result_status = "error",
                !.result_message = "Processing failed"]

\* the threads that hold a slot: between the increment and the decrement of
\* _processing_count
InSlot == {"slot", "run", "working", "reported", "raised", "finally"}

SlotHolders == {j \in JobIds : jq_thread[j] \in InSlot}

\* the threads inside the call of the processor
InProcessor == {"run", "working", "reported"}

\* cleanup_old_jobs: the jobs with created_at < cutoff.  Jobs are created in
\* the order of their ids.
stale_ids == {j \in JobIds : j <= jq_cutoff}

beside_queue ==
    <<rvars, cvars, svars, phvars, rtvars, upvars, exvars, vavars, jbvars, sfvars, odvars,
      nzvars>>

\* create_job: the JobInfo is stored and its thread is started
QueueCreateJob(j) ==
    /\ jq_thread[j] = "none"
    /\ \A i \in 1..(j - 1) : jq_thread[i] # "none"
    /\ jq_jobs' = [jq_jobs EXCEPT ![j] = NewJob]
    /\ jq_index' = jq_index \cup {j}
    /\ jq_thread' = [jq_thread EXCEPT ![j] = "started"]
    /\ UNCHANGED <<jq_progress, jq_processing_count, jq_cutoff, jq_cancelled, jq_invoked, beside_queue>>

\* _process_job: get_job; a job that is gone ends the thread
ThreadGetJob(j) ==
    /\ jq_thread[j] = "started"
    /\ jq_thread' = [jq_thread EXCEPT ![j] = IF j \in jq_index THEN "waiting" ELSE "ended"]
    /\ UNCHANGED <<jq_progress, jq_jobs, jq_index, jq_processing_count, jq_cutoff, jq_cancelled,
                   jq_invoked, beside_queue>>

\* _process_job: the loop that waits for a slot; a round that finds none
\* sleeps and changes nothing
ThreadTakeSlot(j) ==
    /\ jq_thread[j] = "waiting"
    /\ slot_is_free(jq_processing_count)
    /\ jq_processing_count' = jq_processing_count + 1
    /\ jq_thread' = [jq_thread EXCEPT ![j] = "slot"]
    /\ UNCHANGED <<jq_progress, jq_jobs, jq_index, jq_cutoff, jq_cancelled, jq_invoked, beside_queue>>

\* _process_job: "Check if cancelled while waiting", else the job is PROCESSING
ThreadCheckCancelled(j) ==
    /\ jq_thread[j] = "slot"
    /\ IF jq_jobs[j].status = "cancelled"
       THEN /\ jq_thread' = [jq_thread EXCEPT ![j] = "finally"]
            /\ UNCHANGED <<jq_jobs, jq_progress>>
       ELSE /\ jq_thread' = [jq_thread EXCEPT ![j] = "run"]
            /\ jq_progress' = [jq_progress EXCEPT ![j] = 5]
            /\ jq_jobs' = [jq_jobs EXCEPT ![j] = [@ EXCEPT !.status = "processing"]]
    /\ UNCHANGED <<jq_index, jq_processing_count, jq_cutoff, jq_cancelled, jq_invoked, beside_queue>>

\* self._processor_func(job_id) is called; process_job_background returns at
\* once when get_job finds nothing
ProcessorBegins(j) ==
    /\ jq_thread[j] = "run"
    /\ jq_invoked' = jq_invoked \cup {j}
    /\ jq_thread' = [jq_thread EXCEPT ![j] = IF j \in jq_index THEN "working" ELSE "finally"]
    /\ UNCHANGED <<jq_progress, jq_jobs, jq_index, jq_processing_count, jq_cutoff, jq_cancelled, beside_queue>>

\* the processor calls update_progress
ProcessorUpdates(j) ==
    /\ jq_thread[j] \in {"working", "reported"}
    /\ j \in jq_index
    /\ jq_progress' = [jq_progress EXCEPT ![j] = update_progress(jq_jobs[j], @, 10)]
    /\ jq_progress' # jq_progress
    /\ UNCHANGED <<jq_jobs, jq_index, jq_thread, jq_processing_count, jq_cutoff, jq_cancelled,
                   jq_invoked, beside_queue>>

\* the processor calls complete_job or fail_job
ProcessorCompletes(j) ==
    /\ jq_thread[j] \in {"working", "reported"}
    /\ \E status \in {"success", "error"} :
          IF j \in jq_index
          THEN /\ jq_jobs' = [jq_jobs EXCEPT ![j] = complete_job(@, status, status)]
               /\ jq_progress' = [jq_progress EXCEPT ![j] = 100]
          ELSE UNCHANGED <<jq_jobs, jq_progress>>
    /\ jq_thread' = [jq_thread EXCEPT ![j] = "reported"]
    /\ UNCHANGED <<jq_index, jq_processing_count, jq_cutoff, jq_cancelled, jq_invoked, beside_queue>>

\* the processor returns
ProcessorReturns(j) ==
    /\ jq_thread[j] = "reported"
    /\ jq_thread' = [jq_thread EXCEPT ![j] = "finally"]
    /\ UNCHANGED <<jq_progress, jq_jobs, jq_index, jq_processing_count, jq_cutoff, jq_cancelled,
                   jq_invoked, beside_queue>>

\* the processor raises
ProcessorRaises(j) ==
    /\ jq_thread[j] \in {"working", "reported"}
    /\ jq_thread' = [jq_thread EXCEPT ![j] = "raised"]
    /\ UNCHANGED <<jq_progress, jq_jobs, jq_index, jq_processing_count, jq_cutoff, jq_cancelled,
                   jq_invoked, beside_queue>>

\* _process_job: `except Exception`
ThreadExcept(j) ==
    /\ jq_thread[j] = "raised"
    /\ jq_jobs' = [jq_jobs EXCEPT ![j] = processing_failed(@)]
    /\ jq_thread' = [jq_thread EXCEPT ![j] = "finally"]
    /\ UNCHANGED <<jq_progress, jq_index, jq_processing_count, jq_cutoff, jq_cancelled, jq_invoked, beside_queue>>

\* _process_job: `finally`
ThreadFinally(j) ==
    /\ jq_thread[j] = "finally"
    /\ jq_processing_count' = jq_processing_count - 1
    /\ jq_thread' = [jq_thread EXCEPT ![j] = "ended"]
    /\ UNCHANGED <<jq_progress, jq_jobs, jq_index, jq_cutoff, jq_cancelled, jq_invoked, beside_queue>>

\* cancel_job(job_id), for a job the queue has created: True for a job that
\* is found and can be cancelled, False otherwise
CancelJob(j) ==
    /\ jq_thread[j] # "none"
    /\ IF j \in jq_index /\ can_cancel(jq_jobs[j])
       THEN /\ jq_jobs' = [jq_jobs EXCEPT ![j] = [@ EXCEPT !.status = "cancelled"]]
            /\ jq_cancelled' = jq_cancelled \cup {j}
       ELSE UNCHANGED <<jq_jobs, jq_cancelled>>
    /\ UNCHANGED <<jq_progress, jq_index, jq_thread, jq_processing_count, jq_cutoff, jq_invoked,
                   beside_queue>>

\* time passes: the cutoff of the cleanup moves past created_at of the
\* oldest job that was not behind it
CutoffMoves ==
    /\ jq_cutoff < MaxJobs
    /\ jq_thread[jq_cutoff + 1] # "none"
    /\ jq_cutoff' = jq_cutoff + 1
    /\ UNCHANGED <<jq_progress, jq_jobs, jq_index, jq_thread, jq_processing_count, jq_cancelled,
                   jq_invoked, beside_queue>>

\* cleanup_old_jobs, run by the scheduler: every job created before the
\* cutoff is taken out of self._jobs
CleanupOldJobs ==
    /\ jq_index \cap stale_ids # {}
    /\ jq_index' = jq_index \ stale_ids
    /\ UNCHANGED <<jq_progress, jq_jobs, jq_thread, jq_processing_count, jq_cutoff, jq_cancelled,
                   jq_invoked, beside_queue>>

ThreadStep(j) ==
    \/ ThreadGetJob(j)
    \/ ThreadTakeSlot(j)
    \/ ThreadCheckCancelled(j)
    \/ ProcessorBegins(j)
    \/ ProcessorUpdates(j)
    \/ ProcessorCompletes(j)
    \/ ProcessorReturns(j)
    \/ ProcessorRaises(j)
    \/ ThreadExcept(j)
    \/ ThreadFinally(j)

QNext ==
    \/ \E j \in JobIds : QueueCreateJob(j)
    \/ \E j \in JobIds : ThreadStep(j)
    \/ \E j \in JobIds : CancelJob(j)
    \/ CutoffMoves
    \/ CleanupOldJobs

SpecQueue == Init /\ [][QNext]_vars

\* every job thread runs on: the scheduler of the threads gives each of them
\* its turn, a round of the waiting loop that finds a free slot takes it, and
\* each call of the processor reports and returns
QueueFairness ==
    \A j \in JobIds :
        /\ WF_vars(ThreadGetJob(j))
        /\ WF_vars(ThreadTakeSlot(j))
        /\ WF_vars(ThreadCheckCancelled(j))
        /\ WF_vars(ProcessorBegins(j))
        /\ WF_vars(ProcessorCompletes(j))
        /\ WF_vars(ProcessorReturns(j))
        /\ WF_vars(ThreadExcept(j))
        /\ WF_vars(ThreadFinally(j))

SpecQueueLive == SpecQueue /\ QueueFairness

(***************************************************************************)
(* The claims                                                              *)
(***************************************************************************)
\* C1: an invocation of the resolver hands one of its result kinds back to the
\* caller and never lets an exception reach the caller, also when Stage 1
\* scores below the threshold.
C1_ResolveNeverRaises == rp_pc = "returned" => rp_out.kind # "raised"

\* a call that scored at or above the threshold and came back with its parse
C1_Stage1Returned == rp_pc = "returned" /\ rp_out.kind = "parsing"


(***************************************************************************)
(* The one-shot lock                                                       *)
(***************************************************************************)
\* C2: a request that executes a locked action leaves the session Unresolved
\* with no locked action, whether the execution succeeded, failed or raised.
C2_LockClearedAfterLockedRun ==
    \A t \in Workers : th[t].pc = "done" /\ th[t].locked_mode => ~th[t].left_locked

\* C3: a request that finds the session Resolved runs no parsing stage on the
\* locked action and does not end in a clarification.
C3_LockedRunBypassesParsing ==
    \A t \in Workers :
        th[t].found_locked => ~th[t].parsed /\ th[t].outcome # "clarification"

\* the request text equals, case-insensitively and whitespace-normalized, one
\* of the options the record holds from its latest clarification
SelectsOption(st, text) ==
    /\ _normalize_ws(text) # <<>>
    /\ \E i \in 1..Len(st.pending_options) :
          _normalize_ws(st.pending_options[i]) = _normalize_ws(text)

\* the step of the request of worker t that takes record o from Unresolved
\* to Resolved
LockedBy(t, o) ==
    /\ th[t].pc = "decide"
    /\ th'[t].pc # "decide"
    /\ th[t].session = o

\* C4, as the code has it: a record goes from Unresolved to Resolved only in
\* the lock decision of a request whose text equals one of the pending options
\* or which is marked input_source = button.
C4_LockOnlyOnOptionOrButton ==
    [][\A o \in (DOMAIN heap) \cap (DOMAIN heap') :
          heap[o].intent_status = "UNRESOLVED" /\ heap'[o].intent_status = "RESOLVED"
              => \E t \in Workers :
                    /\ LockedBy(t, o)
                    /\ \/ SelectsOption(heap[o], th[t].prompt)
                       \/ th[t].input_source = "button"]_vars

\* C4, as the claim has it: a record goes from Unresolved to Resolved only on
\* a request whose text equals one of the options of the previous
\* clarification; no other request sets the lock.
C4_LockOnlyOnOption ==
    [][\A o \in (DOMAIN heap) \cap (DOMAIN heap') :
          heap[o].intent_status = "UNRESOLVED" /\ heap'[o].intent_status = "RESOLVED"
              => \E t \in Workers :
                    /\ LockedBy(t, o)
                    /\ SelectsOption(heap[o], th[t].prompt)]_vars

\* a request without the button mark has selected an offered option and holds
\* the lock it set
C4_LockedBySelection ==
    \E t \in Workers :
        /\ th[t].pc = "prepare"
        /\ th[t].selected
        /\ th[t].locked_mode
        /\ ~th[t].found_locked
        /\ th[t].endpoint = "job"
        /\ heap[th[t].session].intent_status = "RESOLVED"

(***************************************************************************)
(* Clarifications                                                          *)
(***************************************************************************)
Range(s) == {s[i] : i \in 1..Len(s)}

\* C5: when the previous request of the session ended in a clarification, a
\* request that ends in a clarification too asks no new open question: it
\* offers options, and only options that were offered before.
C5_SecondClarificationForcesChoice ==
    \A t \in Workers :
        (/\ th[t].pc = "done"
         /\ th[t].outcome = "clarification"
         /\ last_outcome.kind = "clarification")
            => /\ th[t].options # <<>>
               /\ Range(th[t].options) \subseteq Range(last_outcome.options)

SequencingWords == {"then", "after", "before", "first", "next", "finally", "afterwards"}

\* the instruction names the docx family and the png family, whose terminal
\* outputs differ, and has no sequencing word
NamesTwoOutputs(p) ==
    /\ HasTok(LowerSeq(p), "docx")
    /\ HasTok(LowerSeq(p), "png")
    /\ ~HasAny(LowerSeq(p), SequencingWords)

\* C6: an instruction that names two families with different terminal outputs
\* and has no sequencing word never resolves to a plan; the result is a
\* clarification with exactly two options.
C6_TwoOutputsAskWhich ==
    cl_pc = "returned" /\ NamesTwoOutputs(cl_prompt)
        => /\ cl_out.intent = NoIntent
           /\ cl_out.clarification # None
           /\ Len(cl_out.options) = 2

\* C7: a request that resubmits one of the offered options does not end in
\* another clarification.
C7_OptionResolves ==
    \A t \in Workers :
        th[t].pc = "done" /\ th[t].selected => th[t].outcome # "clarification"

(***************************************************************************)
(* The lock of the session store and eviction                              *)
(***************************************************************************)
\* the fields of a record, without its age
Fields(st) == [st EXCEPT !.updated_at = "recent"]

\* C8: a record is read and updated inside a critical section of the lock of
\* the session store only: the step in which a request reads the lock state
\* of its record is taken by the holder of the lock, and so is every step
\* that changes a field of a record.
C8_RecordAccessUnderLock ==
    [][/\ \A t \in Workers :
             th[t].pc = "decide" /\ th'[t].pc # "decide" => sessions_lock = t
       /\ \A o \in (DOMAIN heap) \cap (DOMAIN heap') :
             Fields(heap'[o]) # Fields(heap[o])
                 => \E t \in Workers : sessions_lock = t /\ th'[t] # th[t]]_vars

\* the steps during which clarify_intent (and with it the LLM call) or
\* execute_operation is in progress
CollaboratorCalls == {"clarify", "execute", "repeat"}

\* C9: the lock of the session store is never held by a thread that has a
\* collaborator call in progress; it is held inside _get_session and
\* cleanup_old_sessions only.
C9_LockNotHeldAcrossCalls ==
    /\ \A t \in Workers :
          /\ th[t].pc \in CollaboratorCalls => sessions_lock # t
          /\ sessions_lock = t => th[t].pc \in {"in_get_session", "in_recover"}
    /\ sessions_lock = "cleaner" <=> cleaner = "in_cleanup"

\* a collaborator call is in progress in one thread while another thread is
\* inside its critical section
C9_CallWhileLockInUse ==
    \E t \in Workers :
        /\ th[t].pc \in CollaboratorCalls
        /\ sessions_lock \notin {None, t}

\* every request in flight still has its record
NoDangling == \A t \in Workers : th[t].session # 0 => th[t].session \in DOMAIN heap

\* the step of cleanup_old_sessions that pops the stale entries
Evicts == cleaner = "in_cleanup" /\ cleaner' = "idle"

\* C10: eviction raises nothing and changes no plan: a request in flight
\* keeps its record, eviction changes neither the request nor the record, and
\* the one effect is that the next request of the session starts from a blank
\* record, so that its prompt is parsed as it stands instead of slot-filled.
C10_EvictionIsSafe ==
    /\ []NoDangling
    /\ [][/\ Evicts =>
               /\ th' = th
               /\ \A t \in Workers :
                     th[t].session # 0 => heap'[th[t].session] = heap[th[t].session]
          /\ \A t \in Workers :
                (th[t].pc = "in_get_session" /\ th'[t].pc = "decide" /\ sessions["s1"] = 0)
                    => /\ heap'[th'[t].session] = SessionState
                       /\ \A p \in UserPrompts :
                             SlotFilledPrompt(heap'[th'[t].session], p) = p]_vars

\* a request goes on to execute its plan on a record that has been evicted
\* from the store in the meantime
C10_EvictedInFlight ==
    \E t \in Workers :
        /\ th[t].pc \in {"execute", "recover"}
        /\ th[t].session # 0
        /\ sessions["s1"] # th[t].session

(***************************************************************************)
(* Stage 2 of the resolution pipeline                                      *)
(***************************************************************************)
\* the prompts Stage 1 does not accept, which are the ones resolve hands on
Stage1Rejects(p) ==
    \/ parse_command(p) = NoParsing
    \/ parse_command(p).confidence < STAGE1_CONFIDENCE_THRESHOLD

\* C11: when the rewrite collaborator fails, times out or returns nothing for
\* a prompt that Stage 1 does not accept, the call of the resolver does not
\* raise: Stage 2 counts as no rewrite and the call ends in the Stage-3
\* clarification request.
C11_FailedRewriteEndsInClarification ==
    /\ rp_pc = "returned"
    /\ Stage1Rejects(rp_prompt)
    /\ rp_rephraser \in {"fails", "times_out", "nothing"}
    => rp_out.kind = "clarification"

(***************************************************************************)
(* Timeouts of the collaborator calls                                      *)
(***************************************************************************)
\* C12: every blocking call to the rewrite collaborator carries an explicit
\* timeout, so that a provider that never responds cannot hold a request.
C12_EveryCallHasTimeout == ph_pc = "calling" => ph_call.timeout # None

(***************************************************************************)
(* The retry guards                                                        *)
(***************************************************************************)
\* the attempt failed in a way the guard of the request retries at count 0
Retryable(guards, outcome, target_size_mb) ==
    GuardAnswer(guards, outcome, target_size_mb, 0).should_retry

\* C13: within one request no guard issues a retry more than once: the size
\* guard and the text/encoding guard answer "retry" only for a retry count of
\* 0 and never for a count of 1 or more.
C13_RetryAtMostOnce ==
    /\ Len(rt_retries) <= 1
    /\ \A i \in 1..Len(rt_retries) : rt_retries[i].retry_count = 0
    /\ rt_pc = "guard" /\ rt_retry_count >= 1
       => ~GuardAnswer(rt_guards, rt_outcome, rt_target, rt_retry_count).should_retry

\* a request that was retried once, missed again and was not retried again
C13_SecondMissNotRetried ==
    /\ rt_pc = "done"
    /\ Len(rt_retries) = 1
    /\ rt_retry_count = 1
    /\ Retryable(rt_guards, rt_outcome, rt_target)

\* a step with operation type op stands at a position after the first
LaterStep(plan, op) == \E i \in 2..Len(plan) : plan[i].op = op

\* C14: in every plan that clarify_intent returns for a request, a merge step
\* or an images-to-pdf step stands at the first position only; no returned
\* plan has either of them at a later position.
C14_MergeOnlyFirst ==
    up_pc = "returned" =>
        /\ ~LaterStep(up_out.intent, "merge")
        /\ ~LaterStep(up_out.intent, "images_to_pdf")

\* step i of the plan ends in a non-PDF terminal: text, a ZIP, or a DOCX that
\* the next step does not convert back
NonPdfTerminal(plan, i) ==
    \/ output_type(plan[i].op) \in {"txt", "zip"}
    \/ /\ output_type(plan[i].op) = "docx"
       /\ (i = Len(plan) \/ plan[i + 1].op # "docx_to_pdf")

\* C15: in every plan that clarify_intent returns, a step whose output is a
\* non-PDF terminal (text, ZIP, or DOCX with no reverse step) is the last
\* step of the plan.
C15_TerminalStepIsLast ==
    cl_pc = "returned" =>
        \A i \in 1..Len(cl_out.intent) :
            NonPdfTerminal(cl_out.intent, i) => i = Len(cl_out.intent)

\* the compatibility matrix: the operation does not accept the file type
IncompatibleStep(operation, file_type) ==
    /\ operation \in DOMAIN MATRIX
    /\ file_type \notin MATRIX[operation].valid_types

\* the compatibility matrix: an incompatibility of the operation does not block
OptionalStep(operation) == operation \in DOMAIN MATRIX /\ ~MATRIX[operation].block

\* the plan without its step k
Without(plan, k) == SubSeq(plan, 1, k - 1) \o SubSeq(plan, k + 1, Len(plan))

\* step k is the one step of the plan that a guard has something to say
\* about: it is incompatible with the type of the uploaded file and optional
OnlyOptionalMisfit(plan, k, uploaded_files) ==
    /\ IncompatibleStep(plan[k], get_file_type(uploaded_files[1]))
    /\ OptionalStep(plan[k])
    /\ \A j \in 1..Len(plan) :
          check_all_guards(plan[j], get_file_type(uploaded_files[1]),
                           uploaded_files[1], 0) = NoGuard

\* C16: when a candidate plan has a step that is incompatible with the file
\* type and optional, the guards remove exactly that step without a message
\* and the remaining steps go on as the plan; the request is not blocked.
C16_OptionalStepDropped ==
    ex_pc \in {"steps", "returned"} =>
        \A k \in 1..Len(ex_plan) :
            OnlyOptionalMisfit(ex_plan, k, ex_files) =>
                /\ ex_intents = Without(ex_plan, k)
                /\ ex_out.kind # "raised"

\* the operation types of the steps of a plan
OperationTypes(intent) == [i \in 1..Len(intent) |-> intent[i].op]

\* clarify_intent itself returns the plan for some prompt and this upload
ResolverBuilt(plan, files) ==
    \E p \in IPrompts : OperationTypes(ImagePipelineResult(p, files).intent) = plan

\* the type of the file that step k of the plan works on: the uploaded file
\* for the first step, what step k-1 produced for a later one
CurrentType(plan, k, uploaded_files) ==
    IF k = 1 THEN get_file_type(uploaded_files[1]) ELSE output_type(plan[k - 1])

\* execute_operation_pipeline has raised the message of a guard before its
\* first step
BlockedByGuard ==
    /\ ex_pc = "returned"
    /\ ex_out.kind = "raised"
    /\ ex_idx = 0
    /\ ex_plan # <<>>

\* C17: the guards check step k of a plan against the type that step k-1
\* produced, not against the type of the uploaded file; a plan that
\* clarify_intent built with a converting first step is never blocked
\* because of the type of the upload.
C17_CheckedAgainstCurrentType ==
    BlockedByGuard =>
        /\ \E k \in 1..Len(ex_plan) :
              check_compatibility(ex_plan[k], CurrentType(ex_plan, k, ex_files)) # NoGuard
        /\ ~(ResolverBuilt(ex_plan, ex_files) /\ ex_plan[1] = "images_to_pdf")

\* the pipeline names two operations that exclude each other
Conflicting(operations) ==
    \E conflict_set \in CONFLICTING_OPS : \A op \in conflict_set : HasTok(operations, op)

\* C18: a request that names mutually exclusive families (merge and split) is
\* resolved into a plan by a fixed precedence rule; it is not rejected as
\* invalid and not reported as an error.
C18_ConflictResolvedByPrecedence ==
    /\ va_pc = "validated"
    /\ Conflicting(va_operations)
    /\ \A i \in 1..Len(va_operations) : va_operations[i] \in VALID_OPS_BY_TYPE(va_source)
    =>
        /\ va_out.is_valid
        /\ va_out.status = "valid"
        /\ va_out.adjusted_pipeline # <<>>

\* the instruction "convert to image", with and without its first word
ConvertToImage == {<<"convert", "to", "image">>, <<"to", "image">>}

\* C19: for an uploaded file that is already an image and the instruction
\* "convert to image", clarify_intent answers with the skip "Already an image"
\* and no plan, and it answers from the hard-coded guards, before any call of
\* the LLM parser.
C19_ImageToImageSkipped ==
    /\ jb_pc \in {"clarified", "done"}
    /\ jb_stage # None
    /\ endswith_image(jb_files[1])
    /\ jb_prompt \in ConvertToImage
    =>
        /\ jb_out = ClarificationResult(NoIntent, Q_ALREADY_IMAGE, NoOptions)
        /\ jb_stage = "guards"

\* an image was uploaded with "convert to image" and clarify_intent has
\* returned
C19_ConvertToImageOnImage ==
    /\ jb_pc = "clarified"
    /\ jb_files = <<"a.png">>
    /\ jb_prompt = <<"convert", "to", "image">>
    /\ jb_stage = "guards"
    /\ jb_out.clarification = Q_ALREADY_IMAGE

\* clarify_intent has answered with one of its redundancy skips
RedundancySkip ==
    /\ jb_stage = "guards"
    /\ jb_out.clarification \in {Q_ALREADY_IMAGE, Q_ALREADY_PDF}

\* C20: a job that hits a redundancy skip does not end with the result status
\* "error" and is not marked FAILED.
C20_SkipIsNotAnError ==
    jb_pc = "done" /\ RedundancySkip =>
        /\ jb_job.status # "failed"
        /\ jb_job.result_status # "error"

\* the instructions the keyword scan recognises as unsupported; the signing
\* words are those of "sign this pdf"
RecognisedUnsupported(prompt) ==
    \/ _is_explicitly_unsupported_request(Words(prompt))
    \/ HasAny(LowerSeq(Words(prompt)), {"sign", "signature", "esign", "e-sign"})

RotateStep(degrees) == <<ParsedIntent("rotate", <<degrees>>)>>

\* the plan the LLM parser writes, whose steps the model does not know
LlmPlan == <<ParsedIntent("llm_plan", <<>>)>>

\* C22: with a pending question of kind rotate_degrees and the pending base
\* instruction "rotate", the replies "90", "right" and "left" resolve to one
\* rotate step of 90, 90 and 270 degrees (stated for the plans clarify_intent
\* builds itself; what the LLM parser answers is not constrained).
C22_RotateReplyFillsDegrees ==
    /\ sf_pc = "clarified"
    /\ _infer_slot_kind(sf_question) = "rotate_degrees"
    /\ sf_base = <<"rotate">>
    /\ sf_out.intent \notin {NoIntent, LlmPlan}
    =>
        /\ sf_reply = <<"90">> => sf_out.intent = RotateStep(90)
        /\ sf_reply = <<"right">> => sf_out.intent = RotateStep(90)
        /\ sf_reply = <<"left">> => sf_out.intent = RotateStep(270)

\* C23: for "merge these and then compress to 2mb" with a.pdf and b.pdf the
\* plan is the merge of the two files followed by a compression to the target
\* of 2 MB.
C23_MergeThenCompressToTarget ==
    /\ up_pc = "returned"
    /\ up_files = <<"a.pdf", "b.pdf">>
    /\ up_prompt = <<"merge", "these", "and", "then", "compress", "to", "2mb">>
    =>
        up_out.intent = <<ParsedIntent("merge", <<>>),
                          ParsedIntent("compress_to_target", <<2>>)>>


\* the priority of a step under the table of the specification
TablePriority(op) ==
    CASE op \in {"merge", "images_to_pdf"} -> 0
      [] op = "ocr" -> 2
      [] op = "delete" -> 10
      [] op = "split" -> 11
      [] op = "reorder" -> 12
      [] op = "rotate" -> 13
      [] op = "watermark" -> 20
      [] op = "page_numbers" -> 21
      [] op \in {"compress", "compress_to_target"} -> 30
      [] op = "pdf_to_docx" -> 90
      [] op = "pdf_to_images" -> 91
      [] op = "extract_text" -> 92
      [] op = "split_to_files" -> 93
      [] OTHER -> 50

\* one of the pair overrides of the specification applies to the request:
\* rotate with compress, merge with two or more files, OCR with anything,
\* compress with a conversion or an export
PairOverrideApplies(prompt, files) ==
    LET ops == _detect_op_families(prompt) IN
    \/ {"rotate", "compress"} \subseteq ops
    \/ "merge" \in ops /\ Len(files) >= 2
    \/ "ocr" \in ops
    \/ "compress" \in ops /\ ops \cap {"convert", "images", "extract_text", "split_to_files"} # {}

\* C24: a request with two families, no sequencing word and no pair override
\* that applies gets a plan whose steps are in ascending priority under the
\* table merge/images-to-pdf=0, ocr=2, delete=10, split=11, reorder=12,
\* rotate=13, watermark=20, page-numbers=21, compress=30, docx=90, images=91,
\* extract-text=92, split-to-files=93.
C24_PlanFollowsPriorityTable ==
    /\ od_pc = "planned"
    /\ Len(od_plan.intent) >= 2
    /\ ~_has_explicit_order_words(od_prompt)
    /\ ~PairOverrideApplies(od_prompt, od_files)
    => \A i \in 1..(Len(od_plan.intent) - 1) :
          TablePriority(od_plan.intent[i].op) <= TablePriority(od_plan.intent[i + 1].op)

\* C25: when OCR is combined with another family in a request without
\* sequencing words, the OCR step is the first step of the plan, whatever the
\* other family is (merge included).
C25_OcrStepFirst ==
    /\ od_pc = "planned"
    /\ HasTok(LowerSeq(od_prompt), "ocr")
    /\ ~_has_explicit_order_words(od_prompt)
    /\ od_plan.intent \notin {NoIntent, LlmPlan}
    => od_plan.intent[1].op = "ocr"


\* C26: the Pipeline Orderer is deterministic: when the same instruction text
\* with the same file list is ordered a second time, the outcome (the step
\* order, the inferred plan or the question) is the one of the first time,
\* whatever question the session holds and whatever the LLM parser answers.
C26_OrdererDeterministic ==
    od_pc \in {"returned", "answered"} /\ od_prev # NoOrdering => od_out = od_prev


\* C27: when Stage 1 and Stage 2 both stay below the threshold and a family
\* was detected in the request, resolve ends in the Stage-3 clarification of
\* that family, with 2 to 4 options; the generic question is kept for
\* requests in which no family was detected.
C27_Stage3AsksForTheFamily ==
    /\ rp_pc = "returned"
    /\ detect_intent(rp_prompt) # None
    /\ parse_command(rp_prompt).confidence < STAGE1_CONFIDENCE_THRESHOLD
    /\ stage2_llm_rephrase(rp_prompt, rp_rephraser).confidence < STAGE1_CONFIDENCE_THRESHOLD
    => /\ rp_out.kind = "clarification"
       /\ rp_out.clarification = stage3_ask_clarification(parse_command(rp_prompt))
       /\ Len(rp_out.clarification.options) \in 2..4


\* C28: every clarification request carries at most five options (none is
\* allowed), whichever function emits it: here the Stage-3 question of
\* ResolutionPipeline.
C28_AtMostFiveOptions ==
    rp_out.kind = "clarification" => Len(rp_out.clarification.options) \in 0..5


\* C29: Stage 1 accepts the parse of a request exactly when its confidence is
\* at least 0.7 (70 hundredths); the confidence is the sum of intent clarity
\* (0 to 0.3), parameter completeness (0 to 0.4) and the ambiguity term
\* (0 to 0.3), clamped to the range 0 to 1.
C29_Stage1AcceptsFromSeventy ==
    rp_pc = "returned" =>
        LET parsing == parse_command(rp_prompt)
            total == intent_clarity(rp_prompt)
                     + parameter_completeness(parsing.intent, parsing.params)
                     + ambiguity_term(rp_prompt)
        IN /\ (rp_out.kind = "parsing") <=> (parsing # NoParsing /\ parsing.confidence >= 70)
           /\ rp_out.kind = "parsing" => rp_out.parsing = parsing
           /\ intent_clarity(rp_prompt) \in 0..30
           /\ parameter_completeness(parsing.intent, parsing.params) \in 0..40
           /\ ambiguity_term(rp_prompt) \in 0..30
           /\ parsing # NoParsing =>
                 parsing.confidence = (IF total > 100 THEN 100 ELSE IF total < 0 THEN 0 ELSE total)

\* a request whose confidence is exactly 0.7 (family with no required
\* parameter, high ambiguity) has been accepted by Stage 1
C29_AcceptedAtThreshold ==
    /\ rp_pc = "returned"
    /\ rp_out.kind = "parsing"
    /\ rp_out.parsing.confidence = 70
    /\ ambiguity_term(rp_prompt) = 0


\* C30: normalization is idempotent: normalizing the normalized form of a
\* text with the same function returns that normalized form unchanged.
C30_NormalizeIdempotent == nz_pc = "renormalized" => nz_twice = nz_once

\* C31: the lockedAction set by one option selection is executed by exactly one
\* request: two requests of one session never both run in locked mode on the
\* same stored lockedAction
C31_LockedActionExecutedOnce ==
    ~(/\ th["web"].session = th["job"].session
      /\ th["web"].session # 0
      /\ th["web"].locked_mode
      /\ th["job"].locked_mode
      /\ th["web"].prompt_to_parse # <<>>
      /\ th["web"].prompt_to_parse = th["job"].prompt_to_parse)

\* C32: a request that ends in the unsupported reply, or that went through to
\* execution (where the redundancy guard may skip it), records no pending
\* question, options or base instruction in the session: after its last step the
\* pending fields are empty or are what they were before that step
C32_UnsupportedRecordsNoPending ==
    [][\A t \in Workers :
          /\ th[t].pc \in {"clarify", "execute"}
          /\ th'[t].pc = "done"
          /\ th[t].pc = "execute" \/ th'[t].outcome = "unsupported"
          => LET before == heap[th[t].session]
                 after == heap'[th[t].session]
                 pending(st) == <<st.pending_question, st.pending_options,
                                  st.pending_base_instruction>>
             IN \/ pending(after) = <<None, <<>>, <<>> >>
                \/ pending(after) = pending(before)]_vars

\* C33: a submit request that ends in an error response without creating a job
\* leaves the SessionState as it was before: the step that ends it changes no
\* field of the record, and it does not leave the session RESOLVED
C33_FailedSubmitLeavesSession ==
    [][/\ th["web"].endpoint = "submit"
       /\ th["web"].pc = "decide"
       /\ th'["web"].pc = "done"
       /\ th'["web"].outcome = "error"
       => /\ heap'[th["web"].session] = heap[th["web"].session]
          /\ heap[th["web"].session].intent_status # "RESOLVED"
                => heap'[th["web"].session].intent_status # "RESOLVED"]_vars

\* C34: the lockedAction stored for a selected option denotes the same
\* operations, in the same order and with the same parameters, as the option
\* text the user selected: the parser answers both texts alike
C34_LockedActionDenotesOption ==
    [][\A t \in Workers :
          LET st == heap[th[t].session]
          IN /\ th[t].pc = "decide"
             /\ th'[t].pc # "decide"
             /\ _is_button_confirmation(st, th[t].prompt)
             /\ ~(st.intent_status = "RESOLVED" /\ st.locked_action # <<>>)
             => /\ heap'[th[t].session].intent_status = "RESOLVED"
                /\ ParseResults(heap'[th[t].session].locked_action)
                      = ParseResults(th[t].prompt)]_vars

\* C35: when the redundancy guard answers skip for one step of a plan of
\* several steps, only that step is left out and the other steps are still
\* executed: such a call does not return as skipped without running a step
C35_SkipOmitsOneStepOnly ==
    ex_pc = "returned" /\ Len(ex_plan) > 1 => ex_out.kind # "skipped"

(***************************************************************************)
(* The job queue                                                           *)
(***************************************************************************)
\* C36: at every moment at most max_concurrent processors are running, the
\* slot counter is within 0..max_concurrent, and it is 0 whenever no job
\* thread is between taking and releasing a slot
C36_SlotCounterBounded ==
    /\ jq_processing_count \in 0..max_concurrent
    /\ Cardinality({j \in JobIds : jq_thread[j] \in InProcessor}) <= max_concurrent
    /\ jq_processing_count = Cardinality(SlotHolders)
    /\ SlotHolders = {} => jq_processing_count = 0

\* a processor has raised, another job was cancelled while it waited, both
\* threads have ended and the counter is back at 0
C36_ReleasedAfterExceptionAndCancel ==
    /\ jq_processing_count = 0
    /\ \A j \in JobIds : jq_thread[j] = "ended"
    /\ \E j \in JobIds : jq_jobs[j].result_message = "Processing failed"
    /\ \E j \in jq_cancelled : j \notin jq_invoked

\* C37: every job created by create_job eventually reaches COMPLETED, FAILED
\* or CANCELLED, provided each processor call returns
C37_EveryJobEnds ==
    \A j \in JobIds : (jq_thread[j] # "none") ~> (jq_jobs[j].status \in FinalStatuses)

\* C38: a job for which cancel_job returned True is never handed to the
\* processor and stays CANCELLED, and cancel_job returns True only for a job
\* that is PENDING or UPLOADING
C38_CancelledNeverRuns ==
    [][\A j \in JobIds :
          /\ j \in jq_cancelled' =>
                /\ jq_jobs'[j].status = "cancelled"
                /\ ~(j \in jq_invoked' /\ j \notin jq_invoked)
                /\ jq_thread'[j] \notin InProcessor
          /\ j \in jq_cancelled' /\ j \notin jq_cancelled =>
                jq_jobs[j].status \in {"pending", "uploading"}]_vars

\* a job was cancelled while it waited; its thread took a slot, found it
\* cancelled and ended without calling the processor
C38_CancelledThreadEnded ==
    \E j \in jq_cancelled :
        /\ jq_thread[j] = "ended"
        /\ j \notin jq_invoked
        /\ jq_jobs[j].status = "cancelled"
        /\ \E k \in jq_invoked : k # j

\* C39: cleanup_old_jobs never removes a job that is still PENDING or
\* PROCESSING
C39_CleanupKeepsLiveJobs ==
    [][\A j \in JobIds :
          j \in jq_index /\ j \notin jq_index'
             => jq_jobs[j].status \notin {"pending", "processing"}]_vars

\* C40: once the status of a job is COMPLETED, FAILED or CANCELLED, the
\* status and the result fields never change again
C40_FinalStatusIsFinal ==
    [][\A j \in JobIds :
          jq_jobs[j].status \in FinalStatuses => jq_jobs'[j] = jq_jobs[j]]_vars

====
